---- MODULE Spec2Model ----
(***************************************************************************)
(* Model of the Ultimate-Trend-Strategy trading core:                      *)
(*   - PositionManager  (src/src/trading/position_manager.py)              *)
(*   - RiskManager      (src/src/trading/risk_manager.py)                  *)
(*   - StrategyEngine   (src/src/strategy/engine.py), gates and cooldown   *)
(*   - NewsFilter       (src/src/strategy/news_filter.py)                  *)
(*   - SupertrendIndicator (src/src/indicators/supertrend.py)              *)
(*                                                                         *)
(* Prices are integers in ticks.  One ATR is 10 ticks, so the multipliers  *)
(* of config.py (1.5, 1.2, 0.1, ...) are kept in tenths and every product  *)
(* atr * multiplier is exact.                                              *)
(***************************************************************************)
EXTENDS Integers, Sequences, FiniteSets, TLC

VARIABLES
    positions,   \* PositionManager._positions : symbol -> ManagedPosition
    pcfg,        \* the use_* switches of Config.risk / Config.profit
    calls,       \* executor calls issued by the last operation, in order
    lastOp,      \* the last operation and its arguments
    rm,          \* RiskManager counters
    scfg,        \* Config.sizing
    lastMult,    \* value returned by the last get_sizing_multiplier()
    symbols,     \* StrategyEngine._symbols : symbol -> SymbolState
    now,         \* time.time()
    lastEval,    \* Signal returned by the last operation, when it was evaluate()
    emitted,     \* history: symbol -> times at which evaluate emitted LONG/SHORT
    ecfg,        \* the Config switches the engine reads
    lastExit,    \* value returned by the last should_exit_long / should_exit_short
    retry,       \* history: executor calls refused in the position's last tick,
                 \* and those of them issued again in the tick after
    nf,          \* NewsFilter: enabled, buffer_before, buffer_after, events
    lastBlackout,\* argument and value of the last is_blackout()
    sti,         \* SupertrendIndicator: _supertrend, _direction, _prev_*, bar count
    inds,        \* the rolling histories of one symbol's indicators
    stream,      \* history: samples supplied by the last update_batch and since
    setup        \* an IndicatorStatus and what the setup checks answered for it

vars == <<positions, pcfg, calls, lastOp, rm, scfg, lastMult,
          symbols, now, lastEval, emitted, ecfg, lastExit, retry,
          nf, lastBlackout, sti, inds, stream, setup>>

pmVars     == <<positions, pcfg, calls, retry>>
riskVars   == <<rm, scfg, lastMult>>
engineVars == <<symbols, now, lastEval, emitted, ecfg, lastExit>>
newsVars   == <<nf, lastBlackout>>
stVars     == <<sti>>
indVars    == <<inds, stream>>
setupVars  == <<setup>>
libVars    == <<newsVars, stVars, indVars, setupVars>>

(***************************************************************************)
(* Configuration defaults (config.py), multipliers in tenths.              *)
(***************************************************************************)
StoplossAtr         == 15
TakeprofitAtr       == 30
TrailingStopAtr     == 12
BreakevenTriggerAtr == 15
Tp1Atr              == 15
Tp2Atr              == 25

\* atr * multiplier, multiplier given in tenths
Mul(atr, m) == (atr * m) \div 10

Symbols   == {"BTCUSDT", "ETHUSDT"}
PMSymbols == {"BTCUSDT"}
Sides     == {"LONG", "SHORT"}
Outcomes  == {"ok", "fail", "raise"}   \* executor returns True / returns False / raises

AtrValues   == {0, 10}
EntryPrices == {500}
Prices      == {475, 485, 486, 500, 514, 515, 525}
\* trailing distances the configuration may carry (tenths of ATR)
TrailChoices == {TrailingStopAtr, 20}

\* an empty dict
EmptyMap == [x \in {} |-> x]

\* nothing refused, nothing issued again
NoRetry == [refused |-> {}, again |-> {}]

\* no Signal returned
NoEval == [sym |-> "-", type |-> "NONE", reason |-> "", entry |-> 0, sl |-> 0,
           tp |-> 0, tp1 |-> 0, tp2 |-> 0, reasons |-> <<>>]

\* no should_exit_* answered
NoExit == [sym |-> "-", side |-> "-", value |-> FALSE]

Max(a, b) == IF a >= b THEN a ELSE b
Min(a, b) == IF a <= b THEN a ELSE b

\* variant of SignalLevels that places the levels of a short like a long's
SignalLevelsUnmirrored(side, entry, atr, partial) ==
    [sl  |-> entry - Mul(atr, StoplossAtr),
     tp  |-> entry + Mul(atr, TakeprofitAtr),
     tp1 |-> IF partial THEN entry + Mul(atr, Tp1Atr) ELSE 0,
     tp2 |-> IF partial THEN entry + Mul(atr, Tp2Atr) ELSE 0]

(***************************************************************************)
(* StrategyEngine._create_signal: price levels of an emitted signal.       *)
(***************************************************************************)
SignalLevels(side, entry, atr, partial) ==
    IF side = "LONG"
    THEN [sl  |-> entry - Mul(atr, StoplossAtr),
          tp  |-> entry + Mul(atr, TakeprofitAtr),
          tp1 |-> IF partial THEN entry + Mul(atr, Tp1Atr) ELSE 0,
          tp2 |-> IF partial THEN entry + Mul(atr, Tp2Atr) ELSE 0]
    ELSE [sl  |-> entry + Mul(atr, StoplossAtr),
          tp  |-> entry - Mul(atr, TakeprofitAtr),
          tp1 |-> IF partial THEN entry - Mul(atr, Tp1Atr) ELSE 0,
          tp2 |-> IF partial THEN entry - Mul(atr, Tp2Atr) ELSE 0]

(***************************************************************************)
(* ManagedPosition as built by PositionManager.register_position.          *)
(***************************************************************************)
ManagedPosition(side, entry, sl, tp, tp1, tp2, atr) ==
    [side                |-> side,
     entry_price         |-> entry,
     current_price       |-> entry,
     stoploss            |-> sl,
     takeprofit          |-> tp,
     tp1_price           |-> tp1,
     tp2_price           |-> tp2,
     atr_at_entry        |-> atr,
     breakeven_triggered |-> FALSE,
     tp1_triggered       |-> FALSE,
     tp2_triggered       |-> FALSE,
     highest_price       |-> entry,
     lowest_price        |-> entry]

\* an executor call: the method, the check that issued it, its arguments
\* (symbol, side, fraction in percent or stop price) and its outcome
Call(op, tag, sym, side, arg, res) ==
    [op |-> op, tag |-> tag, sym |-> sym, side |-> side, arg |-> arg, res |-> res]

\* the operation just performed; rev is the engine's answer to the
\* reversal question of a management tick (an evaluate also records what the
\* news filter answered)
Op(op, sym) == [op |-> op, sym |-> sym, rev |-> FALSE]

\* a management context: the position, the calls issued so far, and whether
\* an executor call raised (the exception leaves _manage_position at once)
Ctx(pos, cs, raised) == [pos |-> pos, calls |-> cs, raised |-> raised]

\* variant of CheckPartialTp1 that marks TP1 as taken before looking at the
\* executor's answer
CheckPartialTp1Eager(sym, c, res) ==
    LET pos == c.pos
        hit == \/ pos.side = "LONG"  /\ pos.current_price >= pos.tp1_price
               \/ pos.side = "SHORT" /\ pos.current_price <= pos.tp1_price
    IN  IF ~hit THEN c
        ELSE Ctx([pos EXCEPT !.tp1_triggered = TRUE],
                 Append(c.calls, Call("close_partial", "TP1", sym, pos.side, 50, res)),
                 res = "raise")

(***************************************************************************)
(* PositionManager._check_partial_tp1                                      *)
(***************************************************************************)
CheckPartialTp1(sym, c, res) ==
    LET pos == c.pos
        hit == \/ pos.side = "LONG"  /\ pos.current_price >= pos.tp1_price
               \/ pos.side = "SHORT" /\ pos.current_price <= pos.tp1_price
    IN  IF ~hit THEN c
        ELSE Ctx(IF res = "ok" THEN [pos EXCEPT !.tp1_triggered = TRUE] ELSE pos,
                 Append(c.calls, Call("close_partial", "TP1", sym, pos.side, 50, res)),
                 res = "raise")

\* variant of CheckPartialTp2 that needs the price strictly beyond tp2
CheckPartialTp2Strict(sym, c, res) ==
    LET pos == c.pos
        hit == \/ pos.side = "LONG"  /\ pos.current_price > pos.tp2_price
               \/ pos.side = "SHORT" /\ pos.current_price < pos.tp2_price
    IN  IF ~hit THEN c
        ELSE Ctx(IF res = "ok" THEN [pos EXCEPT !.tp2_triggered = TRUE] ELSE pos,
                 Append(c.calls, Call("close_partial", "TP2", sym, pos.side, 50, res)),
                 res = "raise")

(***************************************************************************)
(* PositionManager._check_partial_tp2                                      *)
(***************************************************************************)
CheckPartialTp2(sym, c, res) ==
    LET pos == c.pos
        hit == \/ pos.side = "LONG"  /\ pos.current_price >= pos.tp2_price
               \/ pos.side = "SHORT" /\ pos.current_price <= pos.tp2_price
    IN  IF ~hit THEN c
        ELSE Ctx(IF res = "ok" THEN [pos EXCEPT !.tp2_triggered = TRUE] ELSE pos,
                 Append(c.calls, Call("close_partial", "TP2", sym, pos.side, 50, res)),
                 res = "raise")

\* variant of CheckBreakeven without the "new_sl improves the stop" test
CheckBreakevenNoImprove(sym, c, atr, res) ==
    LET pos     == c.pos
        reached == IF pos.side = "LONG"
                   THEN pos.current_price >= pos.entry_price + Mul(atr, BreakevenTriggerAtr)
                   ELSE pos.current_price <= pos.entry_price - Mul(atr, BreakevenTriggerAtr)
        new_sl  == IF pos.side = "LONG"
                   THEN pos.entry_price + Mul(atr, 1)
                   ELSE pos.entry_price - Mul(atr, 1)
    IN  IF ~reached THEN c
        ELSE Ctx(IF res = "ok"
                 THEN [pos EXCEPT !.stoploss = new_sl, !.breakeven_triggered = TRUE]
                 ELSE pos,
                 Append(c.calls, Call("set_stoploss", "BE", sym, "-", new_sl, res)),
                 res = "raise")

\* variant of CheckBreakeven that puts the buffer on the losing side of the
\* entry
CheckBreakevenBelowEntry(sym, c, atr, res) ==
    LET pos     == c.pos
        buffer  == Mul(atr, 1)
        reached == IF pos.side = "LONG"
                   THEN pos.current_price >= pos.entry_price + Mul(atr, BreakevenTriggerAtr)
                   ELSE pos.current_price <= pos.entry_price - Mul(atr, BreakevenTriggerAtr)
        new_sl  == IF pos.side = "LONG"
                   THEN pos.entry_price - buffer
                   ELSE pos.entry_price + buffer
        better  == IF pos.side = "LONG"
                   THEN new_sl > pos.stoploss
                   ELSE new_sl < pos.stoploss
    IN  IF ~(reached /\ better) THEN c
        ELSE Ctx(IF res = "ok"
                 THEN [pos EXCEPT !.stoploss = new_sl, !.breakeven_triggered = TRUE]
                 ELSE pos,
                 Append(c.calls, Call("set_stoploss", "BE", sym, "-", new_sl, res)),
                 res = "raise")

(***************************************************************************)
(* PositionManager._check_breakeven                                        *)
(***************************************************************************)
CheckBreakeven(sym, c, atr, res) ==
    LET pos     == c.pos
        trigger == BreakevenTriggerAtr
        buffer  == Mul(atr, 1)
        reached == IF pos.side = "LONG"
                   THEN pos.current_price >= pos.entry_price + Mul(atr, trigger)
                   ELSE pos.current_price <= pos.entry_price - Mul(atr, trigger)
        new_sl  == IF pos.side = "LONG"
                   THEN pos.entry_price + buffer
                   ELSE pos.entry_price - buffer
        better  == IF pos.side = "LONG"
                   THEN new_sl > pos.stoploss
                   ELSE new_sl < pos.stoploss
    IN  IF ~(reached /\ better) THEN c
        ELSE Ctx(IF res = "ok"
                 THEN [pos EXCEPT !.stoploss = new_sl, !.breakeven_triggered = TRUE]
                 ELSE pos,
                 Append(c.calls, Call("set_stoploss", "BE", sym, "-", new_sl, res)),
                 res = "raise")

\* variant of CheckTrailingStop that always moves the stop to the trail level
CheckTrailingStopNoGuard(sym, c, atr, trail, res) ==
    LET pos    == c.pos
        new_sl == IF pos.side = "LONG"
                  THEN pos.highest_price - Mul(atr, trail)
                  ELSE pos.lowest_price + Mul(atr, trail)
    IN  Ctx(IF res = "ok" THEN [pos EXCEPT !.stoploss = new_sl] ELSE pos,
            Append(c.calls, Call("set_stoploss", "TRAIL", sym, "-", new_sl, res)),
            res = "raise")

(***************************************************************************)
(* PositionManager._check_trailing_stop                                    *)
(***************************************************************************)
CheckTrailingStop(sym, c, atr, trail, res) ==
    LET pos        == c.pos
        trail_dist == Mul(atr, trail)
        new_sl     == IF pos.side = "LONG"
                      THEN pos.highest_price - trail_dist
                      ELSE pos.lowest_price + trail_dist
        better     == IF pos.side = "LONG"
                      THEN new_sl > pos.stoploss
                      ELSE new_sl < pos.stoploss
    IN  IF ~better THEN c
        ELSE Ctx(IF res = "ok" THEN [pos EXCEPT !.stoploss = new_sl] ELSE pos,
                 Append(c.calls, Call("set_stoploss", "TRAIL", sym, "-", new_sl, res)),
                 res = "raise")

\* variant of ManageChecks that runs the TP1 check whether or not TP1 was
\* already taken
ManageChecksNoOnce(sym, pos, cfg, r1, r2, r3, r4) ==
    LET atr == pos.atr_at_entry
        c0  == Ctx(pos, <<>>, FALSE)
        c1  == IF cfg.use_partial_profits /\ c0.pos.tp1_price > 0
               THEN CheckPartialTp1(sym, c0, r1) ELSE c0
        c2  == IF c1.raised THEN c1
               ELSE IF cfg.use_partial_profits /\ ~c1.pos.tp2_triggered /\ c1.pos.tp2_price > 0
               THEN CheckPartialTp2(sym, c1, r2) ELSE c1
        c3  == IF c2.raised THEN c2
               ELSE IF cfg.use_breakeven /\ ~c2.pos.breakeven_triggered
               THEN CheckBreakeven(sym, c2, atr, r3) ELSE c2
        c4  == IF c3.raised THEN c3
               ELSE IF cfg.use_trailing_stop
               THEN CheckTrailingStop(sym, c3, atr, cfg.trailing_stop_atr, r4) ELSE c3
    IN  c4

(***************************************************************************)
(* PositionManager._manage_position, steps 2-5 (after the reversal check). *)
(* r1..r4 are the outcomes of the executor calls, should they be made.     *)
(***************************************************************************)
ManageChecks(sym, pos, cfg, r1, r2, r3, r4) ==
    LET atr == pos.atr_at_entry
        \* the four checks in the order of the method, each applied to the
        \* context its predecessor left
        Tp1(c0) == IF cfg.use_partial_profits /\ ~c0.pos.tp1_triggered /\ c0.pos.tp1_price > 0
                   THEN CheckPartialTp1(sym, c0, r1) ELSE c0
        Tp2(c1) == IF c1.raised THEN c1
                   ELSE IF cfg.use_partial_profits /\ ~c1.pos.tp2_triggered /\ c1.pos.tp2_price > 0
                   THEN CheckPartialTp2(sym, c1, r2) ELSE c1
        Be(c2)  == IF c2.raised THEN c2
                   ELSE IF cfg.use_breakeven /\ ~c2.pos.breakeven_triggered
                   THEN CheckBreakeven(sym, c2, atr, r3) ELSE c2
        Tr(c3)  == IF c3.raised THEN c3
                   ELSE IF cfg.use_trailing_stop
                   THEN CheckTrailingStop(sym, c3, atr, cfg.trailing_stop_atr, r4) ELSE c3
    IN  CHOOSE c4 \in {Tr(c3) : c3 \in {Be(c2) : c2 \in {Tp2(c1) : c1 \in
                         {Tp1(c0) : c0 \in {Ctx(pos, <<>>, FALSE)}}}}} : TRUE

Remove(f, k) == [x \in (DOMAIN f) \ {k} |-> f[x]]

(***************************************************************************)
(* PositionManager.register_position, called by TradingBot._on_kline after *)
(* a successful execute for a symbol without a position; the levels are    *)
(* those of the signal.                                                    *)
(***************************************************************************)
RegisterPosition(sym, side, entry, atr) ==
    /\ sym \notin DOMAIN positions
    /\ LET lv == SignalLevels(side, entry, atr, pcfg.use_partial_profits)
       IN  positions' = positions @@
              (sym :> ManagedPosition(side, entry, lv.sl, lv.tp, lv.tp1, lv.tp2, atr))
    /\ calls' = <<>>
    /\ retry' = NoRetry
    /\ lastOp' = Op("register", sym)
    /\ UNCHANGED <<pcfg, riskVars, engineVars, libVars>>

(***************************************************************************)
(* PositionManager.unregister_position                                     *)
(***************************************************************************)
UnregisterPosition(sym) ==
    /\ positions' = IF sym \in DOMAIN positions THEN Remove(positions, sym) ELSE positions
    /\ calls' = <<>>
    /\ retry' = NoRetry
    /\ lastOp' = Op("unregister", sym)
    /\ UNCHANGED <<pcfg, riskVars, engineVars, libVars>>

\* variant of UpdatePriceOf that records the price as the extreme without
\* comparing it with the extreme so far
UpdatePriceOfLatest(pos, price) ==
    IF pos.side = "LONG"
    THEN [pos EXCEPT !.current_price = price, !.highest_price = price]
    ELSE [pos EXCEPT !.current_price = price, !.lowest_price  = price]

(***************************************************************************)
(* PositionManager.update_price                                            *)
(***************************************************************************)
UpdatePriceOf(pos, price) ==
    IF pos.side = "LONG"
    THEN [pos EXCEPT !.current_price = price,
                     !.highest_price = Max(pos.highest_price, price)]
    ELSE [pos EXCEPT !.current_price = price,
                     !.lowest_price  = Min(pos.lowest_price, price)]

UpdatePrice(sym, price) ==
    /\ positions' = IF sym \in DOMAIN positions
                    THEN [positions EXCEPT ![sym] = UpdatePriceOf(positions[sym], price)]
                    ELSE positions
    /\ calls' = <<>>
    /\ retry' = [retry EXCEPT !.again = {}]
    /\ lastOp' = [op |-> "update_price", sym |-> sym, rev |-> FALSE, price |-> price]
    /\ UNCHANGED <<pcfg, riskVars, engineVars, libVars>>

\* variant of CheckReversalExit that closes the position but goes on with
\* the other checks
CheckReversalExitFallThrough(sym, pos, rev, rc) ==
    IF rev
    THEN [calls  |-> <<Call("close_position", "REV", sym, pos.side, 0, rc)>>,
          remove |-> FALSE, exit |-> FALSE, raised |-> rc = "raise"]
    ELSE [calls |-> <<>>, remove |-> FALSE, exit |-> FALSE, raised |-> FALSE]

(***************************************************************************)
(* PositionManager._check_reversal_exit.  rev is what                      *)
(* engine.should_exit_long / should_exit_short answers for the position's  *)
(* side, rc the outcome of executor.close_position (its return value is    *)
(* not looked at; when it raises, unregister_position is not reached).     *)
(* exit = the method returned True.                                        *)
(***************************************************************************)
CheckReversalExit(sym, pos, rev, rc) ==
    IF rev
    THEN [calls  |-> <<Call("close_position", "REV", sym, pos.side, 0, rc)>>,
          remove |-> rc # "raise",
          exit   |-> rc # "raise",
          raised |-> rc = "raise"]
    ELSE [calls |-> <<>>, remove |-> FALSE, exit |-> FALSE, raised |-> FALSE]

\* variant of ManageOne that marks a partial target as taken once its close
\* was attempted, whatever the executor answered
ManageOneMarkAttempted(sym, pos, cfg, rev, rc, r1, r2, r3, r4) ==
    IF pos.atr_at_entry <= 0
    THEN [pos |-> pos, calls |-> <<>>, remove |-> FALSE]
    ELSE LET x == CheckReversalExit(sym, pos, rev, rc)
         IN  IF x.exit \/ x.raised
             THEN [pos |-> pos, calls |-> x.calls, remove |-> x.remove]
             ELSE LET c    == ManageChecks(sym, pos, cfg, r1, r2, r3, r4)
                      tags == {c.calls[i].tag : i \in DOMAIN c.calls}
                  IN  [pos |-> [c.pos EXCEPT
                                  !.tp1_triggered = @ \/ "TP1" \in tags,
                                  !.tp2_triggered = @ \/ "TP2" \in tags],
                       calls |-> x.calls \o c.calls, remove |-> FALSE]

\* variant of ManageOne that runs the checks whatever the ATR at entry is
ManageOneAnyAtr(sym, pos, cfg, rev, rc, r1, r2, r3, r4) ==
    LET x == CheckReversalExit(sym, pos, rev, rc)
    IN  IF x.exit \/ x.raised
        THEN [pos |-> pos, calls |-> x.calls, remove |-> x.remove]
        ELSE LET c == ManageChecks(sym, pos, cfg, r1, r2, r3, r4)
             IN  [pos |-> c.pos, calls |-> x.calls \o c.calls, remove |-> FALSE]

\* variant of ManageOne that closes and unregisters a position whose price
\* has reached its stop or its target
ManageOneStopOut(sym, pos, cfg, rev, rc, r1, r2, r3, r4) ==
    IF pos.atr_at_entry <= 0
    THEN [pos |-> pos, calls |-> <<>>, remove |-> FALSE]
    ELSE IF \/ (pos.side = "LONG" /\ (pos.current_price <= pos.stoploss
                                       \/ pos.current_price >= pos.takeprofit))
            \/ (pos.side = "SHORT" /\ (pos.current_price >= pos.stoploss
                                        \/ pos.current_price <= pos.takeprofit))
    THEN [pos |-> pos, calls |-> <<Call("close_position", "SL", sym, pos.side, 0, rc)>>,
          remove |-> rc # "raise"]
    ELSE LET x == CheckReversalExit(sym, pos, rev, rc)
         IN  IF x.exit \/ x.raised
             THEN [pos |-> pos, calls |-> x.calls, remove |-> x.remove]
             ELSE LET c == ManageChecks(sym, pos, cfg, r1, r2, r3, r4)
                  IN  [pos |-> c.pos, calls |-> x.calls \o c.calls, remove |-> FALSE]

(***************************************************************************)
(* PositionManager._manage_position on a registered position: the          *)
(* position afterwards, the executor calls issued, and whether the         *)
(* position was unregistered.                                              *)
(***************************************************************************)
ManageOne(sym, pos, cfg, rev, rc, r1, r2, r3, r4) ==
    IF pos.atr_at_entry <= 0
    THEN [pos |-> pos, calls |-> <<>>, remove |-> FALSE]
    ELSE LET x == CheckReversalExit(sym, pos, rev, rc)
         IN  IF x.exit \/ x.raised
             THEN [pos |-> pos, calls |-> x.calls, remove |-> x.remove]
             ELSE LET c == ManageChecks(sym, pos, cfg, r1, r2, r3, r4)
                  IN  [pos |-> c.pos, calls |-> x.calls \o c.calls, remove |-> FALSE]

(***************************************************************************)
(* One management tick for one symbol: PositionManager._manage_position    *)
(* as called by manage_all, which swallows the exception of a failed call. *)
(***************************************************************************)
ManageTick(sym, rev, rc, r1, r2, r3, r4) ==
    /\ lastOp' = [op |-> "manage", sym |-> sym, rev |-> rev]
    /\ UNCHANGED <<pcfg, riskVars, engineVars, libVars>>
    /\ IF sym \notin DOMAIN positions
       THEN /\ calls' = <<>>
            /\ UNCHANGED positions
       ELSE LET m == ManageOne(sym, positions[sym], pcfg, rev, rc, r1, r2, r3, r4)
            IN  /\ calls' = m.calls
                /\ positions' = IF m.remove THEN Remove(positions, sym)
                                ELSE [positions EXCEPT ![sym] = m.pos]

ManagePosition(sym, rev, rc, r1, r2, r3, r4) ==
    /\ ManageTick(sym, rev, rc, r1, r2, r3, r4)
    /\ UNCHANGED retry

\* the identity of an executor call: method, issuing check, symbol
CallKey(c) == [op |-> c.op, tag |-> c.tag, sym |-> c.sym]

\* the history kept across ticks: which calls of this tick did not succeed
\* (returned False or raised) while the position stayed registered, and
\* which calls that did not succeed in the tick before were issued again
TrackRetry(old, sym, cs, registered) ==
    [refused |-> IF registered
                 THEN {CallKey(cs[i]) : i \in {j \in DOMAIN cs : cs[j].res # "ok"}}
                 ELSE {},
     again   |-> {k \in old.refused : \E i \in DOMAIN cs : CallKey(cs[i]) = k}]

\* the same tick, with the history of refused calls recorded
ManageAndTrack(sym, rev, rc, r1, r2, r3, r4) ==
    /\ ManageTick(sym, rev, rc, r1, r2, r3, r4)
    /\ retry' = TrackRetry(retry, sym, calls', sym \in DOMAIN positions')

(***************************************************************************)
(* RiskManager                                                             *)
(***************************************************************************)
MaxTrades    == 6     \* bound on the number of recorded trades
MaxThreshold == 3     \* bound on Config.sizing.max_consecutive_losses

\* RiskManager.__init__
NewRiskManager ==
    [consecutive_wins |-> 0, consecutive_losses |-> 0,
     total_trades |-> 0, total_wins |-> 0, total_losses |-> 0]

\* variant of RecordWinOf that keeps the loss streak
RecordWinKeepLosses(r) ==
    [r EXCEPT !.consecutive_wins = @ + 1,
              !.total_trades     = @ + 1,
              !.total_wins       = @ + 1]

\* RiskManager.record_win
RecordWinOf(r) ==
    [r EXCEPT !.consecutive_wins   = @ + 1,
              !.consecutive_losses = 0,
              !.total_trades       = @ + 1,
              !.total_wins         = @ + 1]

\* RiskManager.record_loss
RecordLossOf(r) ==
    [r EXCEPT !.consecutive_losses = @ + 1,
              !.consecutive_wins   = 0,
              !.total_trades       = @ + 1,
              !.total_losses       = @ + 1]

\* variant of SizingMultiplier that tests the smaller threshold first
SizingMultiplierWrongOrder(r, cfg) ==
    IF ~cfg.use_adaptive_sizing THEN 100
    ELSE LET max_losses == cfg.max_consecutive_losses
         IN  IF r.consecutive_losses >= max_losses THEN 75
             ELSE IF r.consecutive_losses >= max_losses + 1 THEN 50
             ELSE 100

\* RiskManager.get_sizing_multiplier, in percent (1.0 = 100)
SizingMultiplier(r, cfg) ==
    IF ~cfg.use_adaptive_sizing THEN 100
    ELSE LET max_losses == cfg.max_consecutive_losses
         IN  IF r.consecutive_losses >= max_losses + 1 THEN 50
             ELSE IF r.consecutive_losses >= max_losses THEN 75
             ELSE 100

RecordWin ==
    /\ rm.total_trades < MaxTrades
    /\ rm' = RecordWinOf(rm)
    /\ lastOp' = Op("record_win", "-")
    /\ UNCHANGED <<scfg, lastMult, pmVars, engineVars, libVars>>

RecordLoss ==
    /\ rm.total_trades < MaxTrades
    /\ rm' = RecordLossOf(rm)
    /\ lastOp' = Op("record_loss", "-")
    /\ UNCHANGED <<scfg, lastMult, pmVars, engineVars, libVars>>

GetSizingMultiplier ==
    /\ lastMult' = SizingMultiplier(rm, scfg)
    /\ lastOp' = Op("get_sizing_multiplier", "-")
    /\ UNCHANGED <<rm, scfg, pmVars, engineVars, libVars>>

(***************************************************************************)
(* StrategyEngine                                                          *)
(*                                                                         *)
(* The indicator library is represented by what its query methods answer   *)
(* after the last bar (an "indicator reading"); update_kline replaces the  *)
(* reading, evaluate and should_exit_* only read it.  ema_ready is         *)
(* ema.is_ready_no_trend() (fast, slow and filter EMA have a value);       *)
(* highest_high_set is highest_high > 0; sr_near_* are the two distance    *)
(* tests against tolerance_pct; bars is len(recent_bars).                  *)
(***************************************************************************)
MaxTime == 4      \* bound on the clock

CooldownChoices == {2, 3}

\* variant of DefaultStatus in which the higher timeframe confirms both
\* directions
StatusMtfConfirmed ==
    [ema_fast_above_slow |-> FALSE, ema_strong_bull_trend |-> FALSE,
     ema_strong_bear_trend |-> FALSE, ema_above_200 |-> FALSE,
     ema_below_200 |-> FALSE, ema_bullish_crossover |-> FALSE,
     ema_bearish_crossover |-> FALSE, adx_strong |-> FALSE,
     supertrend_bullish |-> FALSE, supertrend_bearish |-> FALSE,
     bb_above_basis |-> FALSE, bb_below_basis |-> FALSE, bb_wide_enough |-> FALSE,
     mtf_bullish |-> TRUE, mtf_bearish |-> TRUE,
     rsi_bull_zone |-> FALSE, rsi_bear_zone |-> FALSE,
     rsi_bullish_divergence |-> FALSE, rsi_bearish_divergence |-> FALSE,
     macd_bullish |-> FALSE, macd_bearish |-> FALSE,
     volume_above_avg |-> FALSE, volume_spike |-> FALSE,
     volatility_ok |-> FALSE, is_choppy |-> FALSE, is_sideways |-> FALSE,
     near_support |-> FALSE, near_resistance |-> FALSE, news_blackout |-> FALSE,
     bullish_engulfing |-> FALSE, bearish_engulfing |-> FALSE,
     hammer |-> FALSE, shooting_star |-> FALSE,
     morning_doji_star |-> FALSE, evening_doji_star |-> FALSE]

\* signals.py IndicatorStatus(): every flag defaults to False
DefaultStatus ==
    [ema_fast_above_slow |-> FALSE, ema_strong_bull_trend |-> FALSE,
     ema_strong_bear_trend |-> FALSE, ema_above_200 |-> FALSE,
     ema_below_200 |-> FALSE, ema_bullish_crossover |-> FALSE,
     ema_bearish_crossover |-> FALSE, adx_strong |-> FALSE,
     supertrend_bullish |-> FALSE, supertrend_bearish |-> FALSE,
     bb_above_basis |-> FALSE, bb_below_basis |-> FALSE, bb_wide_enough |-> FALSE,
     mtf_bullish |-> FALSE, mtf_bearish |-> FALSE,
     rsi_bull_zone |-> FALSE, rsi_bear_zone |-> FALSE,
     rsi_bullish_divergence |-> FALSE, rsi_bearish_divergence |-> FALSE,
     macd_bullish |-> FALSE, macd_bearish |-> FALSE,
     volume_above_avg |-> FALSE, volume_spike |-> FALSE,
     volatility_ok |-> FALSE, is_choppy |-> FALSE, is_sideways |-> FALSE,
     near_support |-> FALSE, near_resistance |-> FALSE, news_blackout |-> FALSE,
     bullish_engulfing |-> FALSE, bearish_engulfing |-> FALSE,
     hammer |-> FALSE, shooting_star |-> FALSE,
     morning_doji_star |-> FALSE, evening_doji_star |-> FALSE]

\* reading of freshly constructed indicators (SymbolState defaults)
FreshReading ==
    [ema_ready |-> FALSE,
     ema_fast_above_slow |-> FALSE, ema_strong_bull_trend |-> FALSE,
     ema_strong_bear_trend |-> FALSE, ema_above_200 |-> FALSE,
     ema_below_200 |-> FALSE, ema_bullish_crossover |-> FALSE,
     ema_bearish_crossover |-> FALSE, adx_strong |-> FALSE,
     st_ready |-> FALSE, st_bullish |-> FALSE, st_bearish |-> FALSE,
     bb_ready |-> FALSE, bb_above_basis |-> FALSE, bb_below_basis |-> FALSE,
     bb_wide_enough |-> FALSE,
     rsi_ready |-> FALSE, rsi_bull_zone |-> FALSE, rsi_bear_zone |-> FALSE,
     rsi_bullish_divergence |-> FALSE, rsi_bearish_divergence |-> FALSE,
     macd_ready |-> FALSE, macd_bullish |-> FALSE, macd_bearish |-> FALSE,
     vol_ready |-> FALSE, volume_above_avg |-> FALSE, volume_spike |-> FALSE,
     atr_ready |-> FALSE, atr_value |-> 0,
     chop_ready |-> FALSE, is_choppy |-> FALSE, is_sideways |-> FALSE,
     highest_high_set |-> FALSE,
     sr_near_support |-> FALSE, sr_near_resistance |-> FALSE,
     bars |-> 0,
     bullish_engulfing |-> FALSE, bearish_engulfing |-> FALSE,
     hammer |-> FALSE, shooting_star |-> FALSE,
     morning_doji_star |-> FALSE, evening_doji_star |-> FALSE]

\* all indicators warm, nothing else true
WarmReading ==
    [FreshReading EXCEPT !.ema_ready = TRUE, !.st_ready = TRUE, !.bb_ready = TRUE,
                         !.rsi_ready = TRUE, !.macd_ready = TRUE, !.vol_ready = TRUE,
                         !.atr_ready = TRUE, !.atr_value = 10, !.chop_ready = TRUE,
                         !.highest_high_set = TRUE, !.bars = 3]

\* every long filter aligned
BullReading ==
    [WarmReading EXCEPT !.ema_fast_above_slow = TRUE, !.ema_strong_bull_trend = TRUE,
                        !.ema_above_200 = TRUE, !.adx_strong = TRUE,
                        !.st_bullish = TRUE, !.bb_above_basis = TRUE,
                        !.bb_wide_enough = TRUE, !.rsi_bull_zone = TRUE,
                        !.macd_bullish = TRUE]

\* every short filter aligned
BearReading ==
    [WarmReading EXCEPT !.ema_strong_bear_trend = TRUE,
                        !.ema_below_200 = TRUE, !.adx_strong = TRUE,
                        !.st_bearish = TRUE, !.bb_below_basis = TRUE,
                        !.bb_wide_enough = TRUE, !.rsi_bear_zone = TRUE,
                        !.macd_bearish = TRUE]

Readings ==
    {FreshReading,
     BullReading,
     [BullReading EXCEPT !.ema_bullish_crossover = TRUE],
     [BullReading EXCEPT !.volume_spike = TRUE, !.is_choppy = TRUE],
     [BearReading EXCEPT !.bearish_engulfing = TRUE]}

ClosePrices == {500}

\* SymbolState as built by StrategyEngine._init_symbol
NewSymbolState ==
    [ind |-> FreshReading, last_price |-> 0,
     last_signal_time |-> 0, last_signal_type |-> "NEUTRAL"]

(***************************************************************************)
(* StrategyEngine._evaluate_indicators                                     *)
(***************************************************************************)
EvaluateIndicators(state, cfg, news) ==
    LET i     == state.ind
        price == state.last_price
        sr    == cfg.sr_enabled /\ price > 0 /\ i.highest_high_set
    IN  [\* EMA and ADX: always read
         ema_fast_above_slow    |-> i.ema_fast_above_slow,
         ema_strong_bull_trend  |-> i.ema_strong_bull_trend,
         ema_strong_bear_trend  |-> i.ema_strong_bear_trend,
         ema_above_200          |-> i.ema_above_200,
         ema_below_200          |-> i.ema_below_200,
         ema_bullish_crossover  |-> i.ema_bullish_crossover,
         ema_bearish_crossover  |-> i.ema_bearish_crossover,
         adx_strong             |-> i.adx_strong,
         \* read only when the indicator is ready, else the default False
         supertrend_bullish     |-> i.st_ready /\ i.st_bullish,
         supertrend_bearish     |-> i.st_ready /\ i.st_bearish,
         bb_above_basis         |-> i.bb_ready /\ i.bb_above_basis,
         bb_below_basis         |-> i.bb_ready /\ i.bb_below_basis,
         bb_wide_enough         |-> i.bb_ready /\ i.bb_wide_enough,
         \* never assigned
         mtf_bullish            |-> DefaultStatus.mtf_bullish,
         mtf_bearish            |-> DefaultStatus.mtf_bearish,
         rsi_bull_zone          |-> i.rsi_ready /\ i.rsi_bull_zone,
         rsi_bear_zone          |-> i.rsi_ready /\ i.rsi_bear_zone,
         rsi_bullish_divergence |-> i.rsi_ready /\ i.rsi_bullish_divergence,
         rsi_bearish_divergence |-> i.rsi_ready /\ i.rsi_bearish_divergence,
         macd_bullish           |-> i.macd_ready /\ i.macd_bullish,
         macd_bearish           |-> i.macd_ready /\ i.macd_bearish,
         volume_above_avg       |-> i.vol_ready /\ i.volume_above_avg,
         volume_spike           |-> i.vol_ready /\ i.volume_spike,
         \* atr_pct = atr / price * 100 within [min_pct, max_pct] = [0.5, 5.0];
         \* no ATR or no price does not block
         volatility_ok          |-> IF i.atr_ready /\ price > 0
                                    THEN /\ 5 * price <= i.atr_value * 1000
                                         /\ i.atr_value * 1000 <= 50 * price
                                    ELSE TRUE,
         is_choppy              |-> i.chop_ready /\ i.is_choppy,
         is_sideways            |-> i.chop_ready /\ i.is_sideways,
         near_support           |-> sr /\ i.sr_near_support,
         near_resistance        |-> sr /\ i.sr_near_resistance,
         news_blackout          |-> news,
         \* patterns need 2 (3) recent bars
         bullish_engulfing      |-> i.bars >= 2 /\ i.bullish_engulfing,
         bearish_engulfing      |-> i.bars >= 2 /\ i.bearish_engulfing,
         hammer                 |-> i.bars >= 2 /\ i.hammer,
         shooting_star          |-> i.bars >= 2 /\ i.shooting_star,
         morning_doji_star      |-> i.bars >= 3 /\ i.morning_doji_star,
         evening_doji_star      |-> i.bars >= 3 /\ i.evening_doji_star]

(***************************************************************************)
(* StrategyEngine._check_long_setup / _check_short_setup                   *)
(***************************************************************************)
\* variant of CheckLongSetup that asks for the Supertrend direction whether
\* or not the filter is enabled
CheckLongSetupAlwaysSupertrend(s, cfg) ==
    IF ~s.ema_fast_above_slow THEN FALSE
    ELSE IF ~s.ema_strong_bull_trend THEN FALSE
    ELSE IF cfg.use_ema200_filter /\ ~s.ema_above_200 THEN FALSE
    ELSE IF ~s.adx_strong THEN FALSE
    ELSE IF ~s.supertrend_bullish THEN FALSE
    ELSE IF cfg.bollinger_enabled /\ ~(s.bb_above_basis /\ s.bb_wide_enough) THEN FALSE
    ELSE IF cfg.mtf_enabled /\ ~s.mtf_bullish THEN FALSE
    ELSE IF cfg.rsi_enabled /\ ~s.rsi_bull_zone THEN FALSE
    ELSE IF cfg.macd_enabled /\ ~s.macd_bullish THEN FALSE
    ELSE IF cfg.volatility_enabled /\ ~s.volatility_ok THEN FALSE
    ELSE IF cfg.sr_enabled /\ s.near_resistance THEN FALSE
    ELSE TRUE

CheckLongSetup(s, cfg) ==
    IF ~s.ema_fast_above_slow THEN FALSE
    ELSE IF ~s.ema_strong_bull_trend THEN FALSE
    ELSE IF cfg.use_ema200_filter /\ ~s.ema_above_200 THEN FALSE
    ELSE IF ~s.adx_strong THEN FALSE
    ELSE IF cfg.supertrend_enabled /\ ~s.supertrend_bullish THEN FALSE
    ELSE IF cfg.bollinger_enabled /\ ~(s.bb_above_basis /\ s.bb_wide_enough) THEN FALSE
    ELSE IF cfg.mtf_enabled /\ ~s.mtf_bullish THEN FALSE
    ELSE IF cfg.rsi_enabled /\ ~s.rsi_bull_zone THEN FALSE
    ELSE IF cfg.macd_enabled /\ ~s.macd_bullish THEN FALSE
    ELSE IF cfg.volatility_enabled /\ ~s.volatility_ok THEN FALSE
    ELSE IF cfg.sr_enabled /\ s.near_resistance THEN FALSE
    ELSE TRUE

CheckShortSetup(s, cfg) ==
    IF s.ema_fast_above_slow THEN FALSE
    ELSE IF ~s.ema_strong_bear_trend THEN FALSE
    ELSE IF cfg.use_ema200_filter /\ ~s.ema_below_200 THEN FALSE
    ELSE IF ~s.adx_strong THEN FALSE
    ELSE IF cfg.supertrend_enabled /\ ~s.supertrend_bearish THEN FALSE
    ELSE IF cfg.bollinger_enabled /\ ~(s.bb_below_basis /\ s.bb_wide_enough) THEN FALSE
    ELSE IF cfg.mtf_enabled /\ ~s.mtf_bearish THEN FALSE
    ELSE IF cfg.rsi_enabled /\ ~s.rsi_bear_zone THEN FALSE
    ELSE IF cfg.macd_enabled /\ ~s.macd_bearish THEN FALSE
    ELSE IF cfg.volatility_enabled /\ ~s.volatility_ok THEN FALSE
    ELSE IF cfg.sr_enabled /\ s.near_support THEN FALSE
    ELSE TRUE

\* no status checked yet
NoSetup == [status |-> DefaultStatus, checked |-> FALSE, long |-> FALSE, short |-> FALSE]

\* _check_long_setup and _check_short_setup applied to the status at hand
CheckSetups ==
    /\ ~setup.checked
    /\ setup' = [setup EXCEPT !.checked = TRUE,
                              !.long  = CheckLongSetup(setup.status, ecfg),
                              !.short = CheckShortSetup(setup.status, ecfg)]
    /\ lastOp' = Op("check_setup", "-")
    /\ UNCHANGED <<pmVars, riskVars, engineVars, newsVars, stVars, indVars>>

\* variant of CheckLongTrigger that takes a hammer anywhere, not only near
\* support
CheckLongTriggerAnyHammer(s, cfg) ==
    \/ s.ema_bullish_crossover
    \/ s.bullish_engulfing
    \/ s.hammer
    \/ s.rsi_bullish_divergence
    \/ s.morning_doji_star
    \/ (cfg.detect_spike /\ s.volume_spike)

(***************************************************************************)
(* StrategyEngine._check_long_trigger / _check_short_trigger               *)
(***************************************************************************)
CheckLongTrigger(s, cfg) ==
    \/ s.ema_bullish_crossover
    \/ s.bullish_engulfing
    \/ (s.hammer /\ s.near_support)
    \/ s.rsi_bullish_divergence
    \/ s.morning_doji_star
    \/ (cfg.detect_spike /\ s.volume_spike)

CheckShortTrigger(s, cfg) ==
    \/ s.ema_bearish_crossover
    \/ s.bearish_engulfing
    \/ (s.shooting_star /\ s.near_resistance)
    \/ s.rsi_bearish_divergence
    \/ s.evening_doji_star
    \/ (cfg.detect_spike /\ s.volume_spike)

\* variant of IsNoTradeZone that does not look at the filter switches
IsNoTradeZoneAnyFlag(s, cfg) ==
    s.is_choppy \/ s.is_sideways \/ s.news_blackout

(***************************************************************************)
(* StrategyEngine._is_no_trade_zone                                        *)
(***************************************************************************)
IsNoTradeZone(s, cfg) ==
    LET is_choppy   == cfg.use_choppiness /\ s.is_choppy
        is_sideways == cfg.use_sideways /\ s.is_sideways
    IN  is_choppy \/ is_sideways \/ s.news_blackout

\* variant of CheckCooldown whose window is one second short
CheckCooldownShort(state, cfg, t) ==
    IF state.last_signal_time = 0 THEN TRUE
    ELSE t - state.last_signal_time >= cfg.trade_cooldown - 1

(***************************************************************************)
(* StrategyEngine._check_cooldown (True = no cooldown active)              *)
(***************************************************************************)
CheckCooldown(state, cfg, t) ==
    IF state.last_signal_time = 0 THEN TRUE
    ELSE t - state.last_signal_time >= cfg.trade_cooldown

(***************************************************************************)
(* StrategyEngine._indicators_ready                                        *)
(***************************************************************************)
IndicatorsReady(state) ==
    /\ state.ind.ema_ready
    /\ state.ind.rsi_ready
    /\ state.ind.macd_ready
    /\ state.ind.atr_ready

(***************************************************************************)
(* StrategyEngine._neutral_signal: a Signal with the dataclass defaults.   *)
(***************************************************************************)
NeutralSignal(sym, reason) ==
    [sym |-> sym, type |-> "NEUTRAL", reason |-> reason, entry |-> 0, sl |-> 0,
     tp |-> 0, tp1 |-> 0, tp2 |-> 0, reasons |-> <<>>]

\* the flags _create_signal turns into reasons, in its order
ReasonTable(s) ==
    << <<s.ema_bullish_crossover,  "EMA crossover">>,
       <<s.ema_bearish_crossover,  "EMA crossunder">>,
       <<s.bullish_engulfing,      "Bullish engulfing">>,
       <<s.bearish_engulfing,      "Bearish engulfing">>,
       <<s.hammer,                 "Hammer">>,
       <<s.shooting_star,          "Shooting star">>,
       <<s.rsi_bullish_divergence, "RSI bull divergence">>,
       <<s.rsi_bearish_divergence, "RSI bear divergence">>,
       <<s.morning_doji_star,      "Morning doji star">>,
       <<s.evening_doji_star,      "Evening doji star">>,
       <<s.volume_spike,           "Volume spike">> >>

\* StrategyEngine._create_signal: the reasons list
SignalReasons(s) ==
    LET sel == SelectSeq(ReasonTable(s), LAMBDA x : x[1])
    IN  [i \in 1..Len(sel) |-> sel[i][2]]

(***************************************************************************)
(* StrategyEngine._create_signal: the Signal returned.  atr is             *)
(* `state.atr.value or 0.0`; reason, the join of reasons, is kept as the   *)
(* word "trigger".                                                         *)
(***************************************************************************)
CreateSignal(sym, type, state, status, cfg) ==
    LET entry_price == state.last_price
        atr == IF state.ind.atr_ready THEN state.ind.atr_value ELSE 0
        lv  == SignalLevels(type, entry_price, atr, cfg.use_partial_profits)
    IN  [sym |-> sym, type |-> type, reason |-> "trigger",
         entry |-> entry_price, sl |-> lv.sl, tp |-> lv.tp,
         tp1 |-> lv.tp1, tp2 |-> lv.tp2, reasons |-> SignalReasons(status)]

\* variant of EvaluateResult that looks at the no-trade zone before the
\* readiness of the indicators
EvaluateResultZoneFirst(syms, sym, cfg, t, news) ==
    IF sym \notin DOMAIN syms
    THEN NeutralSignal(sym, "Symbol not initialized")
    ELSE LET state == syms[sym] IN
         IF ~CheckCooldown(state, cfg, t)
         THEN NeutralSignal(sym, "Cooldown active")
         ELSE LET status        == EvaluateIndicators(state, cfg, news)
                  long_setup    == CheckLongSetup(status, cfg)
                  short_setup   == CheckShortSetup(status, cfg)
                  long_trigger  == long_setup /\ CheckLongTrigger(status, cfg)
                  short_trigger == short_setup /\ CheckShortTrigger(status, cfg)
              IN  IF IsNoTradeZone(status, cfg)
                  THEN NeutralSignal(sym, "No-trade zone (choppy/sideways/news)")
                  ELSE IF ~IndicatorsReady(state)
                  THEN NeutralSignal(sym, "Indicators warming up")
                  ELSE IF long_trigger
                  THEN CreateSignal(sym, "LONG", state, status, cfg)
                  ELSE IF short_trigger
                  THEN CreateSignal(sym, "SHORT", state, status, cfg)
                  ELSE NeutralSignal(sym, "No trigger")

(***************************************************************************)
(* StrategyEngine.evaluate: the Signal returned.                           *)
(***************************************************************************)
EvaluateResult(syms, sym, cfg, t, news) ==
    IF sym \notin DOMAIN syms
    THEN NeutralSignal(sym, "Symbol not initialized")
    ELSE LET state == syms[sym] IN
         IF ~CheckCooldown(state, cfg, t)
         THEN NeutralSignal(sym, "Cooldown active")
         ELSE IF ~IndicatorsReady(state)
         THEN NeutralSignal(sym, "Indicators warming up")
         ELSE LET status        == EvaluateIndicators(state, cfg, news)
                  long_setup    == CheckLongSetup(status, cfg)
                  short_setup   == CheckShortSetup(status, cfg)
                  long_trigger  == long_setup /\ CheckLongTrigger(status, cfg)
                  short_trigger == short_setup /\ CheckShortTrigger(status, cfg)
              IN  IF IsNoTradeZone(status, cfg)
                  THEN NeutralSignal(sym, "No-trade zone (choppy/sideways/news)")
                  ELSE IF long_trigger
                  THEN CreateSignal(sym, "LONG", state, status, cfg)
                  ELSE IF short_trigger
                  THEN CreateSignal(sym, "SHORT", state, status, cfg)
                  ELSE NeutralSignal(sym, "No trigger")

\* StrategyEngine._create_signal: the cooldown bookkeeping
CreateSignalState(state, type, t) ==
    [state EXCEPT !.last_signal_time = t, !.last_signal_type = type]

\* variant of Evaluate that, like update_kline, creates the state of a
\* symbol it does not know
EvaluateLazyInit(sym, news) ==
    LET syms == IF sym \in DOMAIN symbols THEN symbols
                ELSE symbols @@ (sym :> NewSymbolState)
        r    == EvaluateResult(syms, sym, ecfg, now, news)
    IN  /\ lastEval' = r
        /\ IF r.type \in {"LONG", "SHORT"}
           THEN /\ symbols' = [syms EXCEPT ![sym] = CreateSignalState(@, r.type, now)]
                /\ emitted' = [emitted EXCEPT ![sym] = @ \cup {now}]
           ELSE symbols' = syms /\ UNCHANGED emitted
        /\ lastOp' = [op |-> "evaluate", sym |-> sym, rev |-> FALSE, news |-> news]
        /\ UNCHANGED <<now, ecfg, lastExit, pmVars, riskVars, libVars>>

Evaluate(sym, news) ==
    LET r == EvaluateResult(symbols, sym, ecfg, now, news)
    IN  /\ lastEval' = r
        /\ IF r.type \in {"LONG", "SHORT"}
           THEN /\ symbols' = [symbols EXCEPT ![sym] = CreateSignalState(@, r.type, now)]
                /\ emitted' = [emitted EXCEPT ![sym] = @ \cup {now}]
           ELSE UNCHANGED <<symbols, emitted>>
        /\ lastOp' = [op |-> "evaluate", sym |-> sym, rev |-> FALSE, news |-> news]
        /\ UNCHANGED <<now, ecfg, lastExit, pmVars, riskVars, libVars>>

(***************************************************************************)
(* StrategyEngine.should_exit_long / should_exit_short                     *)
(***************************************************************************)
ShouldExitLong(syms, sym, cfg, news) ==
    IF sym \notin DOMAIN syms THEN FALSE
    ELSE LET status == EvaluateIndicators(syms[sym], cfg, news)
         IN  \/ status.ema_bearish_crossover
             \/ status.bearish_engulfing
             \/ (status.shooting_star /\ status.near_resistance)
             \/ status.supertrend_bearish

ShouldExitShort(syms, sym, cfg, news) ==
    IF sym \notin DOMAIN syms THEN FALSE
    ELSE LET status == EvaluateIndicators(syms[sym], cfg, news)
         IN  \/ status.ema_bullish_crossover
             \/ status.bullish_engulfing
             \/ (status.hammer /\ status.near_support)
             \/ status.supertrend_bullish

ShouldExit(sym, side, news) ==
    /\ lastExit' = [sym |-> sym, side |-> side,
                    value |-> IF side = "LONG"
                              THEN ShouldExitLong(symbols, sym, ecfg, news)
                              ELSE ShouldExitShort(symbols, sym, ecfg, news)]
    /\ lastEval' = NoEval
    /\ lastOp' = Op("should_exit", sym)
    /\ UNCHANGED <<symbols, now, emitted, ecfg, pmVars, riskVars, libVars>>

(***************************************************************************)
(* StrategyEngine.update_kline: a confirmed bar replaces the reading.      *)
(***************************************************************************)
UpdateKline(sym, reading, close) ==
    LET base == IF sym \in DOMAIN symbols THEN symbols[sym] ELSE NewSymbolState
        st   == [base EXCEPT !.ind = reading, !.last_price = close]
    IN  /\ symbols' = IF sym \in DOMAIN symbols
                      THEN [symbols EXCEPT ![sym] = st]
                      ELSE symbols @@ (sym :> st)
        /\ lastOp' = Op("update_kline", sym)
        /\ lastEval' = NoEval
        /\ UNCHANGED <<now, emitted, ecfg, lastExit, pmVars, riskVars, libVars>>

\* the wall clock advances
AdvanceTime ==
    /\ now < MaxTime
    /\ now' = now + 1
    /\ lastOp' = Op("clock", "-")
    /\ lastEval' = NoEval
    /\ UNCHANGED <<symbols, emitted, ecfg, lastExit, pmVars, riskVars, libVars>>

(***************************************************************************)
(* TradingBot (main.py): the candle callback and the polling loop.         *)
(***************************************************************************)
\* the ManagedPosition that _on_kline registers from a signal
RegisterOf(sig, atr) ==
    ManagedPosition(sig.type, sig.entry, sig.sl, sig.tp, sig.tp1, sig.tp2, atr)

\* get_indicator_values(symbol).get("atr", 0.0) or 0.0
IndicatorAtr(syms, sym) ==
    IF sym \in DOMAIN syms /\ syms[sym].ind.atr_ready
    THEN syms[sym].ind.atr_value ELSE 0

\* variant of OnKline that executes every actionable signal, without asking
\* whether the symbol already has a position
OnKlineAlwaysExecute(sym, confirm, reading, close, news, xr) ==
    LET base  == IF sym \in DOMAIN symbols THEN symbols[sym] ELSE NewSymbolState
        st    == [base EXCEPT !.ind = reading, !.last_price = close]
        syms1 == IF sym \in DOMAIN symbols THEN [symbols EXCEPT ![sym] = st]
                 ELSE symbols @@ (sym :> st)
        r     == EvaluateResult(syms1, sym, ecfg, now, news)
        actionable == r.type \in {"LONG", "SHORT"}
        syms2 == IF actionable
                 THEN [syms1 EXCEPT ![sym] = CreateSignalState(@, r.type, now)]
                 ELSE syms1
        sizing == SizingMultiplier(rm, scfg)
        pos   == RegisterOf(r, IndicatorAtr(syms2, sym))
    IN  /\ lastOp' = [op |-> "on_kline", sym |-> sym, rev |-> FALSE,
                      news |-> news, confirm |-> confirm]
        /\ UNCHANGED <<now, ecfg, lastExit, pcfg, rm, scfg, libVars>>
        /\ IF ~confirm
           THEN /\ calls' = <<>>
                /\ UNCHANGED <<symbols, lastEval, emitted, positions, retry, lastMult>>
           ELSE /\ symbols' = syms2
                /\ lastEval' = r
                /\ emitted' = IF actionable THEN [emitted EXCEPT ![sym] = @ \cup {now}]
                              ELSE emitted
                /\ IF actionable
                   THEN /\ lastMult' = sizing
                        /\ calls' = <<Call("execute", "OPEN", sym, r.type, sizing, xr)>>
                        /\ IF xr = "ok"
                           THEN /\ positions' = IF sym \in DOMAIN positions
                                                THEN [positions EXCEPT ![sym] = pos]
                                                ELSE positions @@ (sym :> pos)
                                /\ retry' = NoRetry
                           ELSE UNCHANGED <<positions, retry>>
                   ELSE /\ calls' = <<>>
                        /\ UNCHANGED <<positions, retry, lastMult>>

\* TradingBot._on_kline: an unconfirmed bar is dropped; a confirmed bar goes
\* to update_kline and evaluate, and an actionable signal for a symbol
\* without a position goes to the executor, whose answer xr is success
\* ("ok"), no success ("fail") or an exception ("raise", caught by the
\* callback); only success registers the position.
OnKline(sym, confirm, reading, close, news, xr) ==
    LET base  == IF sym \in DOMAIN symbols THEN symbols[sym] ELSE NewSymbolState
        st    == [base EXCEPT !.ind = reading, !.last_price = close]
        syms1 == IF sym \in DOMAIN symbols THEN [symbols EXCEPT ![sym] = st]
                 ELSE symbols @@ (sym :> st)
        r     == EvaluateResult(syms1, sym, ecfg, now, news)
        actionable == r.type \in {"LONG", "SHORT"}
        syms2 == IF actionable
                 THEN [syms1 EXCEPT ![sym] = CreateSignalState(@, r.type, now)]
                 ELSE syms1
        sizing == SizingMultiplier(rm, scfg)
    IN  /\ lastOp' = [op |-> "on_kline", sym |-> sym, rev |-> FALSE,
                      news |-> news, confirm |-> confirm]
        /\ UNCHANGED <<now, ecfg, lastExit, pcfg, rm, scfg, libVars>>
        /\ IF ~confirm
           THEN /\ calls' = <<>>
                /\ UNCHANGED <<symbols, lastEval, emitted, positions, retry, lastMult>>
           ELSE /\ symbols' = syms2
                /\ lastEval' = r
                /\ emitted' = IF actionable THEN [emitted EXCEPT ![sym] = @ \cup {now}]
                              ELSE emitted
                /\ IF actionable /\ sym \notin DOMAIN positions
                   THEN /\ lastMult' = sizing
                        /\ calls' = <<Call("execute", "OPEN", sym, r.type, sizing, xr)>>
                        /\ IF xr = "ok"
                           THEN /\ positions' = positions @@
                                      (sym :> RegisterOf(r, IndicatorAtr(syms2, sym)))
                                /\ retry' = NoRetry
                           ELSE UNCHANGED <<positions, retry>>
                   ELSE /\ calls' = <<>>
                        /\ UNCHANGED <<positions, retry, lastMult>>

\* one symbol's part of a polling pass: _manage_position with the engine's
\* own answer to the reversal question
BotManage(sym, news, rc, r1, r2, r3, r4) ==
    LET rev == /\ sym \in DOMAIN positions
               /\ IF positions[sym].side = "LONG"
                  THEN ShouldExitLong(symbols, sym, ecfg, news)
                  ELSE ShouldExitShort(symbols, sym, ecfg, news)
    IN  ManagePosition(sym, rev, rc, r1, r2, r3, r4)

\* the orders in which a pass can visit the symbols of a registry: the
\* registry keeps the order of registration, which can be any
PassOrders(syms) ==
    {ord \in UNION {[1..n -> syms] : n \in {Cardinality(syms)}} :
        \A i, j \in DOMAIN ord : i # j => ord[i] # ord[j]}

\* what one symbol's tick of a pass is given: the engine's answer to the
\* reversal question and the executor's answer to every call of the tick
PassInputs == [rev : BOOLEAN, res : Outcomes]

\* variant of ManageAll without the try/except around each symbol: the
\* first exception ends the pass
ManageAllNoCatch(ord, inp) ==
    LET One(acc, sym) ==
            IF acc.raised THEN acc
            ELSE LET m == ManageOne(sym, acc.positions[sym], pcfg, inp[sym].rev,
                                    inp[sym].res, inp[sym].res, inp[sym].res,
                                    inp[sym].res, inp[sym].res)
                 IN  [positions |-> IF m.remove THEN Remove(acc.positions, sym)
                                    ELSE [acc.positions EXCEPT ![sym] = m.pos],
                      calls     |-> acc.calls \o m.calls,
                      managed   |-> Append(acc.managed, sym),
                      raised    |-> \E i \in DOMAIN m.calls : m.calls[i].res = "raise"]
        pass[i \in 0..Len(ord)] ==
            IF i = 0
            THEN [positions |-> positions, calls |-> <<>>, managed |-> <<>>,
                  raised |-> FALSE]
            ELSE One(pass[i - 1], ord[i])
        end == pass[Len(ord)]
    IN  /\ ord \in PassOrders(DOMAIN positions)
        /\ positions' = end.positions
        /\ calls' = end.calls
        /\ lastOp' = [op |-> "manage_all", sym |-> "-", rev |-> FALSE,
                      managed |-> end.managed, inp |-> inp]
        /\ UNCHANGED <<pcfg, retry, riskVars, engineVars, libVars>>

\* PositionManager.manage_all: one polling pass.  _manage_position runs for
\* every symbol of the registry as it is when the pass starts, in the
\* registry's order; an exception raised for one symbol is caught and
\* logged, and the pass goes on with the next symbol.
ManageAll(ord, inp) ==
    LET One(acc, sym) ==
            LET m == ManageOne(sym, acc.positions[sym], pcfg, inp[sym].rev,
                               inp[sym].res, inp[sym].res, inp[sym].res,
                               inp[sym].res, inp[sym].res)
            IN  [positions |-> IF m.remove THEN Remove(acc.positions, sym)
                               ELSE [acc.positions EXCEPT ![sym] = m.pos],
                 calls     |-> acc.calls \o m.calls,
                 managed   |-> Append(acc.managed, sym)]
        pass[i \in 0..Len(ord)] ==
            IF i = 0
            THEN [positions |-> positions, calls |-> <<>>, managed |-> <<>>]
            ELSE One(pass[i - 1], ord[i])
        end == pass[Len(ord)]
    IN  /\ ord \in PassOrders(DOMAIN positions)
        /\ positions' = end.positions
        /\ calls' = end.calls
        /\ lastOp' = [op |-> "manage_all", sym |-> "-", rev |-> FALSE,
                      managed |-> end.managed, inp |-> inp]
        /\ UNCHANGED <<pcfg, retry, riskVars, engineVars, libVars>>

(***************************************************************************)
(* NewsFilter (news_filter.py).  A time is [month, day, hour, minute].     *)
(***************************************************************************)
MaxEvents == 2    \* bound on the number of events added

BufferChoices == {0, 30}

NewsEvents ==
    {[month |-> 1, day |-> 1, hour |-> 13, minute |-> 30],
     [month |-> 1, day |-> 1, hour |-> 0,  minute |-> 10],
     [month |-> 1, day |-> 1, hour |-> 23, minute |-> 50],
     [month |-> 2, day |-> 1, hour |-> 13, minute |-> 30]}

DateTimes ==
    {[month |-> 1, day |-> 1, hour |-> h, minute |-> m] :
        h \in {0, 12, 13, 14, 23}, m \in {0, 1, 30, 40, 59}}
    \cup {[month |-> 2, day |-> 1, hour |-> 13, minute |-> 30],
          [month |-> 1, day |-> 2, hour |-> 13, minute |-> 30],
          [month |-> 2, day |-> 2, hour |-> 13, minute |-> 30]}

\* NewsFilter(): the dataclass defaults
NewNewsFilter ==
    [enabled |-> TRUE, buffer_before |-> 30, buffer_after |-> 30, events |-> <<>>]

NoBlackout == [at |-> [month |-> 0, day |-> 0, hour |-> 0, minute |-> 0],
               value |-> FALSE]

\* variant of IsBlackout whose window is open at both ends
IsBlackoutOpen(f, current_utc) ==
    IF ~f.enabled \/ f.events = <<>> THEN FALSE
    ELSE LET current_total_minutes == current_utc.hour * 60 + current_utc.minute
         IN  \E i \in DOMAIN f.events :
                LET event == f.events[i]
                    event_total_minutes == event.hour * 60 + event.minute
                    start_minutes == event_total_minutes - f.buffer_before
                    end_minutes   == event_total_minutes + f.buffer_after
                IN  /\ event.month = current_utc.month
                    /\ event.day = current_utc.day
                    /\ start_minutes < current_total_minutes
                    /\ current_total_minutes < end_minutes

\* NewsFilter.is_blackout
IsBlackout(f, current_utc) ==
    IF ~f.enabled \/ f.events = <<>> THEN FALSE
    ELSE LET current_month == current_utc.month
             current_day   == current_utc.day
             current_total_minutes == current_utc.hour * 60 + current_utc.minute
         IN  \E i \in DOMAIN f.events :
                LET event == f.events[i]
                    event_total_minutes == event.hour * 60 + event.minute
                    start_minutes == event_total_minutes - f.buffer_before
                    end_minutes   == event_total_minutes + f.buffer_after
                IN  /\ event.month = current_month
                    /\ event.day = current_day
                    /\ start_minutes <= current_total_minutes
                    /\ current_total_minutes <= end_minutes

\* NewsFilter.add_event
AddEvent(e) ==
    /\ Len(nf.events) < MaxEvents
    /\ nf' = [nf EXCEPT !.events = Append(@, e)]
    /\ lastOp' = Op("add_event", "-")
    /\ UNCHANGED <<lastBlackout, pmVars, riskVars, engineVars, stVars, indVars, setupVars>>

\* a call of NewsFilter.is_blackout(current_utc)
QueryBlackout(current_utc) ==
    /\ lastBlackout' = [at |-> current_utc, value |-> IsBlackout(nf, current_utc)]
    /\ lastOp' = Op("is_blackout", "-")
    /\ UNCHANGED <<nf, pmVars, riskVars, engineVars, stVars, indVars, setupVars>>

(***************************************************************************)
(* SupertrendIndicator (supertrend.py).  Prices are integers; the ATR of   *)
(* the bars (calculate_atr, last element) is an input of each update, NaN  *)
(* included.  bars is len(_highs), counted up to atr_period + 1, the only  *)
(* length _recalculate distinguishes.                                      *)
(***************************************************************************)
StAtrPeriod  == 10
StMultiplier == 3

\* (high, low, close) of the bars fed
StBars ==
    {<<102, 98, 100>>, <<108, 100, 106>>, <<112, 108, 110>>,
     <<98, 90, 91>>,   <<96, 92, 94>>,    <<104, 96, 97>>,
     <<100, 88, 88>>,  <<106, 102, 103>>}

\* the markers of an undefined ATR (float NaN) and of an unset value (None);
\* every price, band and ATR of the model is positive
NaN  == -1
None == -1

\* what calculate_atr gives for the latest bar
StAtrSamples == {NaN, 1, 2}

\* SupertrendIndicator.__post_init__
NewSupertrend ==
    [bars |-> 0, close |-> 0, supertrend |-> None, direction |-> 1,
     prev_supertrend |-> None, prev_direction |-> 1]

\* variant of Recalculate that takes the raw band, without holding it
\* against the previous value
RecalculateNoHold(x, high, low, close, atr_val) ==
    IF x.bars < StAtrPeriod + 1 THEN x
    ELSE IF atr_val = NaN THEN x
    ELSE LET hl2        == (high + low) \div 2
             upper_band == hl2 + StMultiplier * atr_val
             lower_band == hl2 - StMultiplier * atr_val
         IN  IF x.supertrend = None
             THEN [x EXCEPT !.supertrend = lower_band, !.direction = 1]
             ELSE LET dir == IF close > x.supertrend THEN 1
                             ELSE IF close < x.supertrend THEN -1
                             ELSE x.direction
                  IN  [x EXCEPT !.prev_supertrend = x.supertrend,
                                !.prev_direction = x.direction,
                                !.direction = dir,
                                !.supertrend = IF dir = 1 THEN lower_band
                                               ELSE upper_band]

\* SupertrendIndicator._recalculate, on the state with the bar appended
Recalculate(x, high, low, close, atr_val) ==
    IF x.bars < StAtrPeriod + 1 THEN x
    ELSE IF atr_val = NaN THEN x
    ELSE LET hl2        == (high + low) \div 2
             upper_band == hl2 + StMultiplier * atr_val
             lower_band == hl2 - StMultiplier * atr_val
         IN  IF x.supertrend = None
             THEN [x EXCEPT !.supertrend = lower_band, !.direction = 1]
             ELSE LET prev_supertrend == x.supertrend
                      prev_direction  == x.direction
                      lower == IF prev_direction = 1
                               THEN Max(lower_band, prev_supertrend) ELSE lower_band
                      upper == IF prev_direction = 1
                               THEN upper_band ELSE Min(upper_band, prev_supertrend)
                      dir   == IF close > prev_supertrend THEN 1
                               ELSE IF close < prev_supertrend THEN -1
                               ELSE prev_direction
                  IN  [x EXCEPT !.prev_supertrend = prev_supertrend,
                                !.prev_direction = prev_direction,
                                !.direction = dir,
                                !.supertrend = IF dir = 1 THEN lower ELSE upper]

\* SupertrendIndicator.update
StUpdate(high, low, close, atr_val) ==
    /\ sti' = Recalculate([sti EXCEPT !.bars = Min(@ + 1, StAtrPeriod + 1),
                                      !.close = close],
                          high, low, close, atr_val)
    /\ lastOp' = Op("st_update", "-")
    /\ UNCHANGED <<pmVars, riskVars, engineVars, newsVars, indVars, setupVars>>

(***************************************************************************)
(* The rolling histories of the indicators.  A sample is identified by its *)
(* arrival number in the stream fed to the indicator; the numeric value of *)
(* an average is not modelled, only whether an entry is NaN and which      *)
(* sample it ends at.                                                      *)
(***************************************************************************)
HistoryCap         == 500
EmaFastPeriod      == 9
EmaSlowPeriod      == 21
EmaFilterPeriod    == 50
EmaTrendPeriod     == 200
RsiPeriod          == 14
DivergenceLookback == 5
AdxPeriod          == 14

MaxStream == 503    \* bound on the number of samples of one stream
MaxWarmup == 18     \* bound on the samples fed one by one around a warm start
BatchLens == {0, 10, 15, 16, 501}
LongBatchLens == {0, 499, 501}

\* what _detect_divergences may find: (bullish, bearish)
DivergenceFindings == {<<FALSE, FALSE>>, <<TRUE, FALSE>>, <<FALSE, TRUE>>}

\* python's s[-k:]
LastOf(s, k) == IF Len(s) <= k THEN s ELSE SubSeq(s, Len(s) - k + 1, Len(s))

\* python's s[:k], used by the variant below
FirstOf(s, k) == IF Len(s) <= k THEN s ELSE SubSeq(s, 1, k)

\* the samples 1..n in arrival order
Samples(n) == [i \in 1..n |-> i]

\* calculate_ema: all NaN when there are fewer prices than the period, else
\* NaN up to position period - 1 and an average from there on
CalculateEma(prices, period) ==
    [i \in 1..Len(prices) |->
        IF Len(prices) < period \/ i < period THEN NaN ELSE prices[i]]

\* MultiEMAIndicator._val
EmaVal(arr) == IF arr # <<>> /\ arr[Len(arr)] # NaN THEN arr[Len(arr)] ELSE None

\* MultiEMAIndicator.__post_init__; prev_fast and prev_slow say whether
\* _prev_fast and _prev_slow hold a number
NewMultiEMA ==
    [prices |-> <<>>, fast |-> <<>>, slow |-> <<>>, filter |-> <<>>, trend |-> <<>>,
     prev_fast |-> FALSE, prev_slow |-> FALSE]

\* variant of EmaUpdate that keeps the oldest samples when it trims
EmaUpdateKeepOldest(e, price) ==
    LET prices == Append(e.prices, price)
    IN  [prices    |-> FirstOf(prices, HistoryCap),
         fast      |-> FirstOf(CalculateEma(prices, EmaFastPeriod), HistoryCap),
         slow      |-> FirstOf(CalculateEma(prices, EmaSlowPeriod), HistoryCap),
         filter    |-> FirstOf(CalculateEma(prices, EmaFilterPeriod), HistoryCap),
         trend     |-> FirstOf(CalculateEma(prices, EmaTrendPeriod), HistoryCap),
         prev_fast |-> e.prev_fast \/ EmaVal(e.fast) # None,
         prev_slow |-> e.prev_slow \/ EmaVal(e.slow) # None]

\* MultiEMAIndicator.update
EmaUpdate(e, price) ==
    LET prices == Append(e.prices, price)
    IN  [prices    |-> LastOf(prices, HistoryCap),
         fast      |-> LastOf(CalculateEma(prices, EmaFastPeriod), HistoryCap),
         slow      |-> LastOf(CalculateEma(prices, EmaSlowPeriod), HistoryCap),
         filter    |-> LastOf(CalculateEma(prices, EmaFilterPeriod), HistoryCap),
         trend     |-> LastOf(CalculateEma(prices, EmaTrendPeriod), HistoryCap),
         prev_fast |-> e.prev_fast \/ EmaVal(e.fast) # None,
         prev_slow |-> e.prev_slow \/ EmaVal(e.slow) # None]

\* MultiEMAIndicator.update_batch: the previous values are not touched
EmaUpdateBatch(e, batch) ==
    LET prices == LastOf(batch, HistoryCap)
    IN  [e EXCEPT !.prices = prices,
                  !.fast   = CalculateEma(prices, EmaFastPeriod),
                  !.slow   = CalculateEma(prices, EmaSlowPeriod),
                  !.filter = CalculateEma(prices, EmaFilterPeriod),
                  !.trend  = CalculateEma(prices, EmaTrendPeriod)]

\* RSIIndicator: n is the length of _prices, _highs, _lows and _rsi_values,
\* whose last entry is a number iff n >= period + 1
NewRSI == [n |-> 0, prev_rsi |-> FALSE, bullish_divergence |-> FALSE,
           bearish_divergence |-> FALSE]

RsiValueSet(n) == n >= RsiPeriod + 1

\* RSIIndicator.update; d is what _detect_divergences finds in the lists
RsiUpdate(r, d) ==
    LET m == r.n + 1
        detect == m > DivergenceLookback * 2 + 1
    IN  [n                  |-> IF m > HistoryCap THEN HistoryCap ELSE m,
         prev_rsi           |-> r.prev_rsi \/ RsiValueSet(r.n),
         bullish_divergence |-> IF detect THEN d[1] ELSE r.bullish_divergence,
         bearish_divergence |-> IF detect THEN d[2] ELSE r.bearish_divergence]

\* RSIIndicator.update_batch of k samples
RsiUpdateBatch(r, k, d) ==
    LET m == IF k > HistoryCap THEN HistoryCap ELSE k
        detect == m > DivergenceLookback * 2 + 1
    IN  [n                  |-> m,
         prev_rsi           |-> r.prev_rsi,
         bullish_divergence |-> IF detect THEN d[1] ELSE r.bullish_divergence,
         bearish_divergence |-> IF detect THEN d[2] ELSE r.bearish_divergence]

\* ADXIndicator: n is the length of _highs, _lows and _closes; adx and
\* di say whether _adx and _di_plus/_di_minus hold a number
NewADX == [n |-> 0, adx |-> FALSE, di |-> FALSE]

\* ADXIndicator._recalculate on lists of length m
AdxRecalculate(a, m) ==
    IF m < AdxPeriod + 1 THEN [a EXCEPT !.n = m]
    ELSE LET dx_values == (m - 1) - AdxPeriod
         IN  [n |-> m, adx |-> dx_values > 0, di |-> a.di \/ dx_values > 0]

\* ADXIndicator.update
AdxUpdate(a) ==
    LET x == AdxRecalculate(a, a.n + 1)
    IN  [x EXCEPT !.n = IF @ > HistoryCap THEN HistoryCap ELSE @]

\* ADXIndicator.update_batch of k samples
AdxUpdateBatch(a, k) == AdxRecalculate(a, IF k > HistoryCap THEN HistoryCap ELSE k)

\* SupertrendIndicator: the bars held in _highs, _lows and _closes (the
\* value and direction are those of Recalculate)
NewSupertrendLists == [highs |-> <<>>, lows |-> <<>>, closes |-> <<>>]

\* SupertrendIndicator.update, the lists
StListsUpdate(h, bar) ==
    [highs  |-> LastOf(Append(h.highs, bar), HistoryCap),
     lows   |-> LastOf(Append(h.lows, bar), HistoryCap),
     closes |-> LastOf(Append(h.closes, bar), HistoryCap)]

\* SupertrendIndicator.update_batch, the lists
StListsUpdateBatch(h, bars) ==
    [highs  |-> LastOf(bars, HistoryCap),
     lows   |-> LastOf(bars, HistoryCap),
     closes |-> LastOf(bars, HistoryCap)]

NewIndicators ==
    [ema |-> NewMultiEMA, rsi |-> NewRSI, adx |-> NewADX,
     supertrend |-> NewSupertrendLists]

\* the indicator calls of StrategyEngine.update_batch on a state
BatchOf(x, k, d) ==
    [ema        |-> EmaUpdateBatch(x.ema, Samples(k)),
     rsi        |-> RsiUpdateBatch(x.rsi, k, d),
     adx        |-> AdxUpdateBatch(x.adx, k),
     supertrend |-> StListsUpdateBatch(x.supertrend, Samples(k))]

\* the indicator calls of StrategyEngine.update_kline: one more bar
FeedBar(d) ==
    /\ stream < MaxStream
    /\ stream' = stream + 1
    /\ inds' = [ema        |-> EmaUpdate(inds.ema, stream + 1),
                rsi        |-> RsiUpdate(inds.rsi, d),
                adx        |-> AdxUpdate(inds.adx),
                supertrend |-> StListsUpdate(inds.supertrend, stream + 1)]
    /\ lastOp' = Op("update", "-")
    /\ UNCHANGED <<pmVars, riskVars, engineVars, newsVars, stVars, setupVars>>

\* the indicator calls of StrategyEngine.update_batch: k historical bars
FeedBatch(k, d) ==
    /\ stream' = k
    /\ inds' = BatchOf(inds, k, d)
    /\ lastOp' = [op |-> "update_batch", sym |-> "-", rev |-> FALSE, n |-> k, d |-> d]
    /\ UNCHANGED <<pmVars, riskVars, engineVars, newsVars, stVars, setupVars>>

InitLib ==
    /\ nf = NewNewsFilter
    /\ lastBlackout = NoBlackout
    /\ sti = NewSupertrend
    /\ inds = NewIndicators
    /\ stream = 0
    /\ setup = NoSetup

(***************************************************************************)
(* Initial states                                                          *)
(***************************************************************************)
\* Config() defaults, with the multi-timeframe filter switched off as the
\* engine's tests do (nothing feeds the higher timeframe)
DefaultEcfg ==
    [use_ema200_filter |-> TRUE, supertrend_enabled |-> TRUE,
     bollinger_enabled |-> TRUE, mtf_enabled |-> FALSE, rsi_enabled |-> TRUE,
     macd_enabled |-> TRUE, volatility_enabled |-> TRUE, sr_enabled |-> TRUE,
     detect_spike |-> TRUE, use_choppiness |-> TRUE, use_sideways |-> TRUE,
     use_partial_profits |-> TRUE, trade_cooldown |-> 3]

InitPositions ==
    /\ positions = EmptyMap
    /\ calls = <<>>
    /\ retry = NoRetry
    /\ lastOp = Op("init", "-")

DefaultPcfg ==
    [use_partial_profits |-> TRUE, use_breakeven |-> TRUE,
     use_trailing_stop |-> TRUE, trailing_stop_atr |-> TrailingStopAtr]

DefaultScfg == [use_adaptive_sizing |-> TRUE, max_consecutive_losses |-> 2]

InitRisk ==
    /\ rm = NewRiskManager
    /\ lastMult = 100

InitEngineIdle ==
    /\ symbols = EmptyMap
    /\ ecfg = DefaultEcfg
    /\ now = 1
    /\ lastEval = NoEval
    /\ lastExit = NoExit
    /\ emitted = [s \in Symbols |-> {}]

(***************************************************************************)
(* Specification of the position manager: any configuration of the         *)
(* switches, any interleaving of registration, price updates and ticks.    *)
(***************************************************************************)
InitPM ==
    /\ InitPositions
    /\ pcfg \in [use_partial_profits : BOOLEAN, use_breakeven : BOOLEAN,
                  use_trailing_stop : BOOLEAN, trailing_stop_atr : TrailChoices]
    /\ InitRisk
    /\ scfg = DefaultScfg
    /\ InitEngineIdle
    /\ InitLib

NextPM ==
    \/ \E sym \in PMSymbols, side \in Sides, entry \in EntryPrices, atr \in AtrValues :
          RegisterPosition(sym, side, entry, atr)
    \/ \E sym \in PMSymbols : UnregisterPosition(sym)
    \/ \E sym \in PMSymbols, price \in Prices : UpdatePrice(sym, price)
    \/ \E sym \in PMSymbols, rc \in Outcomes :
          ManagePosition(sym, TRUE, rc, "ok", "ok", "ok", "ok")
    \/ \E sym \in PMSymbols, r1, r2, r3, r4 \in Outcomes :
          ManagePosition(sym, FALSE, "ok", r1, r2, r3, r4)

SpecPM == InitPM /\ [][NextPM]_vars

(***************************************************************************)
(* Properties of the position manager (checked under SpecPM)               *)
(***************************************************************************)
HasCall(cs, tag)   == \E i \in DOMAIN cs : cs[i].tag = tag
HasOkCall(cs, tag) == \E i \in DOMAIN cs : cs[i].tag = tag /\ cs[i].res = "ok"

\* price p has reached level lv in the favourable direction of pos
Reached(pos, p, lv) == IF pos.side = "LONG" THEN p >= lv ELSE p <= lv

\* stop a is at least as favourable / strictly more favourable than stop b
NotWorse(pos, a, b) == IF pos.side = "LONG" THEN a >= b ELSE a <= b
Better(pos, a, b)   == IF pos.side = "LONG" THEN a > b ELSE a < b

\* the step is a management tick of a position registered before it
TickOf(s) == lastOp'.op = "manage" /\ lastOp'.sym = s /\ s \in DOMAIN positions

\* C1: while a position stays registered its recorded stop never moves
\* against it: never down for a long, never up for a short, across price
\* updates and management ticks with any executor outcomes.
C1_StopNeverLoosens ==
    [][\A s \in PMSymbols :
         (s \in DOMAIN positions /\ s \in DOMAIN positions')
         => NotWorse(positions[s], positions'[s].stoploss, positions[s].stoploss)]_vars

\* a position whose stop was raised by breakeven and then by trailing, with
\* the price fallen back below the entry
C1_Witness ==
    \E s \in DOMAIN positions :
        /\ positions[s].side = "LONG"
        /\ positions[s].breakeven_triggered
        /\ positions[s].stoploss > positions[s].entry_price + 1
        /\ positions[s].current_price < positions[s].entry_price

\* C2: a management check whose executor call fails (returns false or
\* raises) commits nothing: a failed TP call leaves its flag false, a failed
\* breakeven call leaves breakevenDone false, and the stop and breakevenDone
\* change only through a set_stoploss call that succeeded, to its argument.
C2_NoCommitOnFailure ==
    [][\A s \in PMSymbols :
         (TickOf(s) /\ s \in DOMAIN positions')
         => LET p  == positions[s]
                q  == positions'[s]
                cs == calls'
            IN  /\ \A i \in DOMAIN cs :
                     /\ (cs[i].tag = "TP1" /\ cs[i].res # "ok") => ~q.tp1_triggered
                     /\ (cs[i].tag = "TP2" /\ cs[i].res # "ok") => ~q.tp2_triggered
                     /\ (cs[i].tag = "BE"  /\ cs[i].res # "ok") => ~q.breakeven_triggered
                /\ (\A i \in DOMAIN cs : cs[i].op = "set_stoploss" => cs[i].res # "ok")
                     => (q.stoploss = p.stoploss
                         /\ q.breakeven_triggered = p.breakeven_triggered)
                /\ q.stoploss # p.stoploss
                     => \E i \in DOMAIN cs : /\ cs[i].op = "set_stoploss"
                                             /\ cs[i].res = "ok"
                                             /\ cs[i].arg = q.stoploss]_vars

\* a tick in which a partial close was refused and a stop update raised
C2_Witness ==
    /\ lastOp.op = "manage"
    /\ \E i, j \in DOMAIN calls :
         /\ calls[i].op = "close_partial" /\ calls[i].res = "fail"
         /\ calls[j].op = "set_stoploss"  /\ calls[j].res = "raise"
    /\ \E s \in DOMAIN positions : ~positions[s].tp1_triggered

\* C3: each partial take-profit fires at most once per position: once
\* tp1Done (tp2Done) is set no later tick issues a TP1 (TP2) close, and
\* tp1Done, tp2Done, breakevenDone never revert while the position stays
\* registered.
C3_TpFiresOnce ==
    [][\A s \in PMSymbols :
         s \in DOMAIN positions
         => LET p == positions[s]
            IN  /\ p.tp1_triggered => ~HasCall(calls', "TP1")
                /\ p.tp2_triggered => ~HasCall(calls', "TP2")
                /\ s \in DOMAIN positions'
                     => /\ p.tp1_triggered => positions'[s].tp1_triggered
                        /\ p.tp2_triggered => positions'[s].tp2_triggered
                        /\ p.breakeven_triggered => positions'[s].breakeven_triggered]_vars

\* a tick at the TP1 level, after both levels fired and the price came back
\* from TP2, that closes nothing
C3_Witness ==
    /\ lastOp.op = "manage"
    /\ \E s \in DOMAIN positions :
         LET p == positions[s]
         IN  /\ p.side = "LONG"
             /\ p.tp1_triggered /\ p.tp2_triggered
             /\ p.current_price = p.tp1_price
             /\ p.highest_price >= p.tp2_price
             /\ ~HasCall(calls, "TP1") /\ ~HasCall(calls, "TP2")

\* the TP1 rule of C4: in a tick without reversal exit of a position with
\* ATR > 0, partial profits on, tp1 > 0 and tp1Done false, a 50% close is
\* issued for TP1 iff the price reached tp1, and tp1Done is set iff it
\* succeeded
Tp1Rule(s) ==
    LET p == positions[s]
    IN  (pcfg.use_partial_profits /\ p.tp1_price > 0 /\ ~p.tp1_triggered)
        => /\ HasCall(calls', "TP1") <=> Reached(p, p.current_price, p.tp1_price)
           /\ positions'[s].tp1_triggered <=> HasOkCall(calls', "TP1")
           /\ \A i \in DOMAIN calls' :
                calls'[i].tag = "TP1"
                => /\ calls'[i].op = "close_partial" /\ calls'[i].sym = s
                   /\ calls'[i].side = p.side /\ calls'[i].arg = 50

\* the same rule for TP2
Tp2Rule(s) ==
    LET p == positions[s]
    IN  (pcfg.use_partial_profits /\ p.tp2_price > 0 /\ ~p.tp2_triggered)
        => /\ HasCall(calls', "TP2") <=> Reached(p, p.current_price, p.tp2_price)
           /\ positions'[s].tp2_triggered <=> HasOkCall(calls', "TP2")
           /\ \A i \in DOMAIN calls' :
                calls'[i].tag = "TP2"
                => /\ calls'[i].op = "close_partial" /\ calls'[i].sym = s
                   /\ calls'[i].side = p.side /\ calls'[i].arg = 50

\* a tick of s that got past the reversal check
PlainTickOf(s) ==
    /\ TickOf(s)
    /\ positions[s].atr_at_entry > 0
    /\ ~lastOp'.rev

Tp1Raised == \E i \in DOMAIN calls' : calls'[i].tag = "TP1" /\ calls'[i].res = "raise"

C5_Tp2ImpliesTp1 ==
    \A s \in DOMAIN positions :
        positions[s].tp2_triggered => positions[s].tp1_triggered

\* C6 as stated: when the engine reports a reversal in a tick of a position
\* with ATR > 0, close_position is the only call of the tick and the position
\* is unregistered in that tick; a tick of an unregistered symbol issues no
\* call and registers nothing.
C6_Original ==
    [][\A s \in PMSymbols :
         /\ (TickOf(s) /\ positions[s].atr_at_entry > 0 /\ lastOp'.rev)
              => /\ Len(calls') = 1
                 /\ calls'[1].op = "close_position" /\ calls'[1].sym = s
                 /\ calls'[1].side = positions[s].side
                 /\ s \notin DOMAIN positions'
         /\ (lastOp'.op = "manage" /\ lastOp'.sym = s /\ s \notin DOMAIN positions)
              => (calls' = <<>> /\ s \notin DOMAIN positions')]_vars

\* C6 amended: the position is unregistered in that tick when close_position
\* returns; when it raises the position stays registered, unchanged, and the
\* tick still issues no other call.
C6_ReversalExit ==
    [][\A s \in PMSymbols :
         /\ (TickOf(s) /\ positions[s].atr_at_entry > 0 /\ lastOp'.rev)
              => /\ Len(calls') = 1
                 /\ calls'[1].op = "close_position" /\ calls'[1].sym = s
                 /\ calls'[1].side = positions[s].side
                 /\ calls'[1].res # "raise" => s \notin DOMAIN positions'
                 /\ calls'[1].res = "raise" => positions' = positions
         /\ (lastOp'.op = "manage" /\ lastOp'.sym = s /\ s \notin DOMAIN positions)
              => (calls' = <<>> /\ s \notin DOMAIN positions')]_vars

\* a reversal tick that closed the position and removed it from the registry
C6_Witness ==
    /\ lastOp.op = "manage" /\ lastOp.rev
    /\ Len(calls) = 1 /\ calls[1].op = "close_position" /\ calls[1].res = "ok"
    /\ lastOp.sym \notin DOMAIN positions

\* C7: a breakeven set_stoploss is issued only with breakeven enabled,
\* breakevenDone false, the price at least ATR*trigger beyond the entry, and
\* for the stop entry +/- 0.1 ATR strictly better than the recorded one;
\* breakevenDone is set exactly when the call succeeds, the stop is then at
\* least that good, and at most one such call is made per tick.
C7_BreakevenOnce ==
    [][\A s \in PMSymbols :
         (TickOf(s) /\ s \in DOMAIN positions')
         => LET p   == positions[s]
                q   == positions'[s]
                cs  == calls'
                atr == p.atr_at_entry
                be  == IF p.side = "LONG" THEN p.entry_price + Mul(atr, 1)
                                          ELSE p.entry_price - Mul(atr, 1)
                lvl == IF p.side = "LONG"
                       THEN p.entry_price + Mul(atr, BreakevenTriggerAtr)
                       ELSE p.entry_price - Mul(atr, BreakevenTriggerAtr)
            IN  /\ \A i \in DOMAIN cs :
                     cs[i].tag = "BE"
                     => /\ cs[i].op = "set_stoploss" /\ cs[i].sym = s
                        /\ pcfg.use_breakeven
                        /\ ~p.breakeven_triggered
                        /\ Reached(p, p.current_price, lvl)
                        /\ cs[i].arg = be
                        /\ Better(p, be, p.stoploss)
                        /\ q.breakeven_triggered <=> cs[i].res = "ok"
                        /\ cs[i].res = "ok" => NotWorse(p, q.stoploss, be)
                        /\ \A j \in DOMAIN cs : cs[j].tag = "BE" => j = i
                /\ (q.breakeven_triggered /\ ~p.breakeven_triggered)
                     => HasOkCall(cs, "BE")]_vars

\* a tick that moved the stop to breakeven
C7_Witness ==
    /\ lastOp.op = "manage"
    /\ HasOkCall(calls, "BE")
    /\ \E s \in DOMAIN positions :
         /\ positions[s].breakeven_triggered
         /\ positions[s].side = "SHORT"
         /\ positions[s].stoploss <= positions[s].entry_price - 1

\* C18: update_price(symbol, p) on a registered position sets the current
\* price to p and extends only the favourable extreme (highest = max(old, p)
\* for a long, lowest = min(old, p) for a short); applying the same p again
\* changes nothing; stop, entry, targets, ATR and the done flags are left
\* alone; and while a position stays registered its favourable extreme is
\* monotone over every step.
C18_UpdatePrice ==
    [][\A s \in PMSymbols :
         (s \in DOMAIN positions /\ s \in DOMAIN positions')
         => LET p == positions[s]
                q == positions'[s]
            IN  /\ p.side = "LONG"  => q.highest_price >= p.highest_price
                /\ p.side = "SHORT" => q.lowest_price <= p.lowest_price
                /\ (lastOp'.op = "update_price" /\ lastOp'.sym = s)
                     => /\ q.current_price = lastOp'.price
                        /\ p.side = "LONG"
                             => /\ q.highest_price
                                     = (IF lastOp'.price > p.highest_price
                                        THEN lastOp'.price ELSE p.highest_price)
                                /\ q.lowest_price = p.lowest_price
                        /\ p.side = "SHORT"
                             => /\ q.lowest_price
                                     = (IF lastOp'.price < p.lowest_price
                                        THEN lastOp'.price ELSE p.lowest_price)
                                /\ q.highest_price = p.highest_price
                        /\ q = [p EXCEPT !.current_price = q.current_price,
                                         !.highest_price = q.highest_price,
                                         !.lowest_price  = q.lowest_price]
                        /\ UpdatePriceOf(q, lastOp'.price) = q
                        /\ calls' = <<>>]_vars

\* a long whose price went to 525 and then fell to 485: the highest price
\* seen stays 525 and the lowest stays at the entry
C18_Witness ==
    /\ lastOp.op = "update_price"
    /\ \E s \in DOMAIN positions :
         /\ lastOp.sym = s
         /\ positions[s].side = "LONG"
         /\ positions[s].current_price = 485
         /\ positions[s].highest_price = 525
         /\ positions[s].lowest_price = positions[s].entry_price

(***************************************************************************)
(* Properties of the risk manager (checked under SpecRM)                   *)
(***************************************************************************)
\* C8: with adaptive sizing on and threshold T >= 1, sizingMultiplier()
\* returns 1.0 below T consecutive losses, 0.75 at exactly T and 0.5 from
\* T+1 on; with adaptive sizing off it returns 1.0 always.
C8_SizingTable ==
    lastOp.op = "get_sizing_multiplier"
    => LET n == rm.consecutive_losses
           T == scfg.max_consecutive_losses
       IN  IF ~scfg.use_adaptive_sizing THEN lastMult = 100
           ELSE /\ n < T      => lastMult = 100
                /\ n = T      => lastMult = 75
                /\ n >= T + 1 => lastMult = 50

\* the multiplier read after three straight losses with threshold 2
C8_Witness ==
    /\ lastOp.op = "get_sizing_multiplier"
    /\ scfg.use_adaptive_sizing /\ scfg.max_consecutive_losses = 2
    /\ rm.consecutive_losses = 3
    /\ lastMult = 50

\* C9: the streaks reset each other (a win zeroes the loss streak, so the
\* multiplier is back to 1.0; a loss zeroes the win streak), at most one of
\* them is non-zero, the totals never decrease and
\* totalTrades = wins + losses.
C9_StreaksAndTotals ==
    [][/\ (rm'.consecutive_wins = 0 \/ rm'.consecutive_losses = 0)
       /\ rm'.total_trades = rm'.total_wins + rm'.total_losses
       /\ rm'.total_trades >= rm.total_trades
       /\ rm'.total_wins >= rm.total_wins
       /\ rm'.total_losses >= rm.total_losses
       /\ lastOp'.op = "record_win"
            => /\ rm'.consecutive_losses = 0
               /\ rm'.consecutive_wins = rm.consecutive_wins + 1
               /\ SizingMultiplier(rm', scfg) = 100
       /\ lastOp'.op = "record_loss"
            => /\ rm'.consecutive_wins = 0
               /\ rm'.consecutive_losses = rm.consecutive_losses + 1]_vars

\* a win recorded right after three losses
C9_Witness ==
    /\ lastOp.op = "record_win"
    /\ rm.total_losses >= 3 /\ rm.total_wins = 1
    /\ rm.consecutive_losses = 0 /\ rm.consecutive_wins = 1

(***************************************************************************)
(* Specification of the risk manager.                                      *)
(***************************************************************************)
InitRM ==
    /\ InitPositions
    /\ pcfg = DefaultPcfg
    /\ InitRisk
    /\ scfg \in [use_adaptive_sizing : BOOLEAN, max_consecutive_losses : 1..MaxThreshold]
    /\ InitEngineIdle
    /\ InitLib

NextRM ==
    \/ RecordWin
    \/ RecordLoss
    \/ GetSizingMultiplier

SpecRM == InitRM /\ [][NextRM]_vars

(***************************************************************************)
(* Properties of the strategy engine (checked under SpecEngine)            *)
(***************************************************************************)
\* symbol s emitted a signal less than cooldownSeconds before time t
InCooldown(s, t) == \E t0 \in emitted[s] : t - t0 < ecfg.trade_cooldown

\* C10: an evaluate of a symbol less than cooldownSeconds after a LONG or
\* SHORT was emitted for it returns NEUTRAL "Cooldown active" whatever the
\* indicators read; a symbol with no such emission is never answered
\* "Cooldown active" and an evaluate leaves the other symbols' state alone;
\* an evaluate that returns NEUTRAL changes no cooldown state, one that
\* emits records the emission time.
C10_Cooldown ==
    [][\A s \in Symbols :
         (lastOp'.op = "evaluate" /\ lastOp'.sym = s)
         => /\ lastEval'.sym = s
            /\ InCooldown(s, now)
                 => (lastEval'.type = "NEUTRAL" /\ lastEval'.reason = "Cooldown active")
            /\ ~InCooldown(s, now) => lastEval'.reason # "Cooldown active"
            /\ \A o \in Symbols \ {s} :
                 /\ emitted'[o] = emitted[o]
                 /\ (o \in DOMAIN symbols') = (o \in DOMAIN symbols)
                 /\ o \in DOMAIN symbols => symbols'[o] = symbols[o]
            /\ lastEval'.type = "NEUTRAL" => (symbols' = symbols /\ emitted' = emitted)
            /\ lastEval'.type \in {"LONG", "SHORT"}
                 => (emitted'[s] = emitted[s] \cup {now}
                     /\ symbols'[s].last_signal_time = now)]_vars

\* BTCUSDT refused for cooldown at a later time than its signal, although
\* its indicators would trigger, while ETHUSDT emitted at this very time
C10_Witness ==
    /\ lastOp.op = "evaluate" /\ lastOp.sym = "BTCUSDT"
    /\ lastEval.type = "NEUTRAL" /\ lastEval.reason = "Cooldown active"
    /\ emitted["BTCUSDT"] # {} /\ now \notin emitted["BTCUSDT"]
    /\ now \in emitted["ETHUSDT"]
    /\ symbols["BTCUSDT"].ind.ema_bullish_crossover

(***************************************************************************)
(* Specification of the strategy engine: the configured symbol is          *)
(* initialised by the constructor, the other one by its first bar.         *)
(***************************************************************************)
InitEngine ==
    /\ InitPositions
    /\ pcfg = DefaultPcfg
    /\ InitRisk
    /\ scfg = DefaultScfg
    /\ symbols = ("BTCUSDT" :> NewSymbolState)
    /\ ecfg \in {[DefaultEcfg EXCEPT !.trade_cooldown = c] : c \in CooldownChoices}
    /\ now = 1
    /\ lastEval = NoEval
    /\ lastExit = NoExit
    /\ emitted = [s \in Symbols |-> {}]
    /\ InitLib

NextEngine ==
    \/ \E sym \in Symbols, reading \in Readings, close \in ClosePrices :
          UpdateKline(sym, reading, close)
    \/ \E sym \in Symbols, news \in BOOLEAN : Evaluate(sym, news)
    \/ AdvanceTime

SpecEngine == InitEngine /\ [][NextEngine]_vars

(***************************************************************************)
(* Specification of the signal decision: one configured symbol fed with    *)
(* bars whose readings cover every gate, every setup condition and every   *)
(* trigger event, under the default configuration and under each           *)
(* configuration that differs from it in one group of switches.            *)
(***************************************************************************)
BullTrigger == [BullReading EXCEPT !.ema_bullish_crossover = TRUE]
BearTrigger == [BearReading EXCEPT !.ema_bearish_crossover = TRUE]

SignalReadings ==
    Readings \cup
    {\* a core indicator without a value
     [BullTrigger EXCEPT !.ema_ready = FALSE],
     [BullTrigger EXCEPT !.rsi_ready = FALSE],
     [BearTrigger EXCEPT !.macd_ready = FALSE],
     [BullTrigger EXCEPT !.atr_ready = FALSE, !.atr_value = 0],
     \* market conditions
     [BullTrigger EXCEPT !.is_sideways = TRUE],
     [BearTrigger EXCEPT !.is_choppy = TRUE],
     \* trigger events on a long setup
     [BullReading EXCEPT !.bullish_engulfing = TRUE],
     [BullReading EXCEPT !.hammer = TRUE],
     [BullReading EXCEPT !.hammer = TRUE, !.sr_near_support = TRUE],
     [BullReading EXCEPT !.rsi_bullish_divergence = TRUE],
     [BullReading EXCEPT !.morning_doji_star = TRUE],
     [BullReading EXCEPT !.volume_spike = TRUE],
     [BullReading EXCEPT !.bearish_engulfing = TRUE],
     [BullTrigger EXCEPT !.bearish_engulfing = TRUE, !.hammer = TRUE],
     \* trigger events on a short setup
     BearReading,
     BearTrigger,
     [BearReading EXCEPT !.shooting_star = TRUE],
     [BearReading EXCEPT !.shooting_star = TRUE, !.sr_near_resistance = TRUE],
     [BearReading EXCEPT !.rsi_bearish_divergence = TRUE],
     [BearReading EXCEPT !.evening_doji_star = TRUE],
     [BearReading EXCEPT !.volume_spike = TRUE],
     \* a trigger event with one setup condition missing
     [WarmReading EXCEPT !.ema_bullish_crossover = TRUE],
     [BullTrigger EXCEPT !.ema_above_200 = FALSE],
     [BullTrigger EXCEPT !.adx_strong = FALSE],
     [BullTrigger EXCEPT !.st_bullish = FALSE],
     [BullTrigger EXCEPT !.bb_wide_enough = FALSE],
     [BullTrigger EXCEPT !.rsi_bull_zone = FALSE],
     [BullTrigger EXCEPT !.sr_near_resistance = TRUE],
     [BullTrigger EXCEPT !.atr_value = 30],
     [BearTrigger EXCEPT !.ema_fast_above_slow = TRUE],
     [BearTrigger EXCEPT !.macd_bearish = FALSE],
     [BearTrigger EXCEPT !.sr_near_support = TRUE]}

\* closes of the bars: one level for every reading, a second one for the
\* two plain trigger readings
SignalClosePrices == {400}

SignalConfigs ==
    LET d == [DefaultEcfg EXCEPT !.trade_cooldown = 2]
    IN  {d,
         [d EXCEPT !.use_choppiness = FALSE],
         [d EXCEPT !.use_sideways = FALSE],
         [d EXCEPT !.detect_spike = FALSE],
         [d EXCEPT !.use_partial_profits = FALSE],
         [d EXCEPT !.mtf_enabled = TRUE],
         [d EXCEPT !.sr_enabled = FALSE],
         [d EXCEPT !.use_ema200_filter = FALSE, !.supertrend_enabled = FALSE,
                   !.bollinger_enabled = FALSE],
         [d EXCEPT !.rsi_enabled = FALSE, !.macd_enabled = FALSE,
                   !.volatility_enabled = FALSE]}

InitSignal ==
    /\ InitPositions
    /\ pcfg = DefaultPcfg
    /\ InitRisk
    /\ scfg = DefaultScfg
    /\ symbols = ("BTCUSDT" :> NewSymbolState)
    /\ ecfg \in SignalConfigs
    /\ now = 1
    /\ lastEval = NoEval
    /\ lastExit = NoExit
    /\ emitted = [s \in Symbols |-> {}]
    /\ InitLib

NextSignal ==
    \/ \E reading \in SignalReadings, close \in ClosePrices :
          UpdateKline("BTCUSDT", reading, close)
    \/ \E reading \in {BullTrigger, BearTrigger}, close \in SignalClosePrices :
          UpdateKline("BTCUSDT", reading, close)
    \/ \E sym \in Symbols, news \in BOOLEAN : Evaluate(sym, news)
    \/ AdvanceTime

SpecSignal == InitSignal /\ [][NextSignal]_vars

(***************************************************************************)
(* Properties of the signal decision (checked under SpecSignal)            *)
(***************************************************************************)
\* the step is evaluate(s)
EvalStep(s) == lastOp'.op = "evaluate" /\ lastOp'.sym = s

\* the core indicators of s all have a value
CoreReady(s) ==
    LET i == symbols[s].ind
    IN  i.ema_ready /\ i.rsi_ready /\ i.macd_ready /\ i.atr_ready

\* s is in a no-trade zone when the news filter answers news
ZoneNow(s, news) ==
    LET i == symbols[s].ind
    IN  \/ ecfg.use_choppiness /\ i.chop_ready /\ i.is_choppy
        \/ ecfg.use_sideways /\ i.chop_ready /\ i.is_sideways
        \/ news

\* evaluate(s) gets past the symbol, cooldown, readiness and no-trade gates
GatesPass(s, news) ==
    /\ s \in DOMAIN symbols
    /\ ~InCooldown(s, now)
    /\ CoreReady(s)
    /\ ~ZoneNow(s, news)

\* every enabled long (short) setup condition holds of the flags f
LongSetupAll(f, cfg) ==
    /\ f.ema_fast_above_slow
    /\ f.ema_strong_bull_trend
    /\ cfg.use_ema200_filter => f.ema_above_200
    /\ f.adx_strong
    /\ cfg.supertrend_enabled => f.supertrend_bullish
    /\ cfg.bollinger_enabled => (f.bb_above_basis /\ f.bb_wide_enough)
    /\ cfg.mtf_enabled => f.mtf_bullish
    /\ cfg.rsi_enabled => f.rsi_bull_zone
    /\ cfg.macd_enabled => f.macd_bullish
    /\ cfg.volatility_enabled => f.volatility_ok
    /\ cfg.sr_enabled => ~f.near_resistance

ShortSetupAll(f, cfg) ==
    /\ ~f.ema_fast_above_slow
    /\ f.ema_strong_bear_trend
    /\ cfg.use_ema200_filter => f.ema_below_200
    /\ f.adx_strong
    /\ cfg.supertrend_enabled => f.supertrend_bearish
    /\ cfg.bollinger_enabled => (f.bb_below_basis /\ f.bb_wide_enough)
    /\ cfg.mtf_enabled => f.mtf_bearish
    /\ cfg.rsi_enabled => f.rsi_bear_zone
    /\ cfg.macd_enabled => f.macd_bearish
    /\ cfg.volatility_enabled => f.volatility_ok
    /\ cfg.sr_enabled => ~f.near_support

\* the long (short) trigger events that are true of the flags f, by the
\* name _create_signal gives them
LongFired(f, cfg) ==
    {r \in {"EMA crossover", "Bullish engulfing", "Hammer", "RSI bull divergence",
            "Morning doji star", "Volume spike"} :
       \/ r = "EMA crossover"       /\ f.ema_bullish_crossover
       \/ r = "Bullish engulfing"   /\ f.bullish_engulfing
       \/ r = "Hammer"              /\ f.hammer /\ f.near_support
       \/ r = "RSI bull divergence" /\ f.rsi_bullish_divergence
       \/ r = "Morning doji star"   /\ f.morning_doji_star
       \/ r = "Volume spike"        /\ cfg.detect_spike /\ f.volume_spike}

ShortFired(f, cfg) ==
    {r \in {"EMA crossunder", "Bearish engulfing", "Shooting star",
            "RSI bear divergence", "Evening doji star", "Volume spike"} :
       \/ r = "EMA crossunder"      /\ f.ema_bearish_crossover
       \/ r = "Bearish engulfing"   /\ f.bearish_engulfing
       \/ r = "Shooting star"       /\ f.shooting_star /\ f.near_resistance
       \/ r = "RSI bear divergence" /\ f.rsi_bearish_divergence
       \/ r = "Evening doji star"   /\ f.evening_doji_star
       \/ r = "Volume spike"        /\ cfg.detect_spike /\ f.volume_spike}

\* C11: evaluate reports the first gate that fails, in the order symbol
\* not initialized, cooldown, core indicators not ready, no-trade zone,
\* setup/trigger; an initialized symbol that never signalled and has a core
\* indicator without a value gets NEUTRAL "Indicators warming up", and an
\* active cooldown gets "Cooldown active" even then.
C11_GateOrder ==
    [][\A s \in Symbols :
         EvalStep(s)
         => LET r    == lastEval'
                news == lastOp'.news
            IN  IF s \notin DOMAIN symbols
                THEN r.type = "NEUTRAL" /\ r.reason = "Symbol not initialized"
                ELSE IF InCooldown(s, now)
                THEN r.type = "NEUTRAL" /\ r.reason = "Cooldown active"
                ELSE IF ~CoreReady(s)
                THEN r.type = "NEUTRAL" /\ r.reason = "Indicators warming up"
                ELSE IF ZoneNow(s, news)
                THEN /\ r.type = "NEUTRAL"
                     /\ r.reason = "No-trade zone (choppy/sideways/news)"
                ELSE r.type \in {"LONG", "SHORT"} \/ r.reason = "No trigger"]_vars

\* an evaluate answered "Cooldown active" for a symbol one of whose core
\* indicators has no value, during a news blackout
C11_Witness ==
    /\ lastOp.op = "evaluate" /\ lastOp.news
    /\ lastEval.type = "NEUTRAL" /\ lastEval.reason = "Cooldown active"
    /\ lastOp.sym \in DOMAIN symbols
    /\ ~symbols[lastOp.sym].ind.rsi_ready

\* C12: in a no-trade zone (choppiness filter on and choppy, sideways filter
\* on and sideways, or news blackout) evaluate returns NEUTRAL whatever the
\* setup and trigger, and changes no cooldown state; with the other gates
\* passed the answer is the no-trade reason exactly when the zone holds, so
\* a choppy or sideways flag whose filter is off does not block.
C12_NoTradeZone ==
    [][\A s \in DOMAIN symbols :
         EvalStep(s)
         => LET r    == lastEval'
                news == lastOp'.news
            IN  /\ ZoneNow(s, news)
                     => /\ r.type = "NEUTRAL"
                        /\ symbols' = symbols
                        /\ emitted' = emitted
                /\ (~InCooldown(s, now) /\ CoreReady(s))
                     => (r.reason = "No-trade zone (choppy/sideways/news)"
                           <=> ZoneNow(s, news))
                /\ (GatesPass(s, news)
                      /\ LongSetupAll(EvaluateIndicators(symbols[s], ecfg, news), ecfg)
                      /\ LongFired(EvaluateIndicators(symbols[s], ecfg, news), ecfg) # {})
                     => r.type = "LONG"]_vars

\* a sideways market with the filter on: NEUTRAL although the long setup and
\* the crossover trigger hold and no news is out
C12_Witness ==
    /\ lastOp.op = "evaluate" /\ ~lastOp.news
    /\ lastEval.type = "NEUTRAL"
    /\ lastEval.reason = "No-trade zone (choppy/sideways/news)"
    /\ lastOp.sym \in DOMAIN symbols
    /\ symbols[lastOp.sym].ind = [BullTrigger EXCEPT !.is_sideways = TRUE]
    /\ ecfg.use_sideways

\* C13: past the gates evaluate returns LONG iff every enabled long setup
\* condition and at least one long trigger event hold, SHORT iff it does not
\* return LONG and every enabled short setup condition and at least one
\* short trigger event hold, NEUTRAL otherwise; without a passing setup no
\* trigger event gives a signal.
C13_SetupAndTrigger ==
    [][\A s \in DOMAIN symbols :
         (EvalStep(s) /\ GatesPass(s, lastOp'.news))
         => LET r     == lastEval'
                f     == EvaluateIndicators(symbols[s], ecfg, lastOp'.news)
                long  == LongSetupAll(f, ecfg) /\ LongFired(f, ecfg) # {}
                short == ShortSetupAll(f, ecfg) /\ ShortFired(f, ecfg) # {}
            IN  /\ r.type = "LONG" <=> long
                /\ r.type = "SHORT" <=> (~long /\ short)
                /\ r.type \in {"LONG", "SHORT", "NEUTRAL"}
                /\ (~LongSetupAll(f, ecfg) /\ ~ShortSetupAll(f, ecfg))
                     => r.type = "NEUTRAL"]_vars

\* a SHORT emitted on a shooting star near resistance
C13_Witness ==
    /\ lastOp.op = "evaluate"
    /\ lastEval.type = "SHORT"
    /\ lastOp.sym \in DOMAIN symbols
    /\ symbols[lastOp.sym].ind.shooting_star
    /\ symbols[lastOp.sym].ind.sr_near_resistance
    /\ ~symbols[lastOp.sym].ind.ema_bearish_crossover

\* C14: an emitted signal has entry = last close; a LONG has stop = entry -
\* ATR*1.5 and target = entry + ATR*3.0, a SHORT the mirror image, so with
\* ATR > 0 the stop is strictly on the losing side and the target strictly
\* on the winning side; tp1, tp2 are entry +/- ATR*1.5, ATR*2.5 with partial
\* profits on and both 0 with partial profits off.
C14_SignalLevels ==
    [][\A s \in DOMAIN symbols :
         (EvalStep(s) /\ lastEval'.type \in {"LONG", "SHORT"})
         => LET r    == lastEval'
                atr  == symbols[s].ind.atr_value
                sign == IF r.type = "LONG" THEN 1 ELSE -1
            IN  /\ r.entry = symbols[s].last_price
                /\ r.sl = r.entry - sign * ((atr * StoplossAtr) \div 10)
                /\ r.tp = r.entry + sign * ((atr * TakeprofitAtr) \div 10)
                /\ atr > 0 => /\ r.type = "LONG"  => (r.sl < r.entry /\ r.entry < r.tp)
                              /\ r.type = "SHORT" => (r.tp < r.entry /\ r.entry < r.sl)
                /\ ecfg.use_partial_profits
                     => /\ r.tp1 = r.entry + sign * ((atr * Tp1Atr) \div 10)
                        /\ r.tp2 = r.entry + sign * ((atr * Tp2Atr) \div 10)
                /\ ~ecfg.use_partial_profits => (r.tp1 = 0 /\ r.tp2 = 0)]_vars

\* a SHORT emitted at close 400 with ATR 10: stop 415, target 370, partial
\* levels 385 and 375
C14_Witness ==
    /\ lastOp.op = "evaluate"
    /\ lastEval.type = "SHORT"
    /\ lastEval.entry = 400 /\ lastEval.sl = 415 /\ lastEval.tp = 370
    /\ lastEval.tp1 = 385 /\ lastEval.tp2 = 375

UnknownPrices == {500, 525}

InitUnknown ==
    /\ InitPositions
    /\ pcfg = DefaultPcfg
    /\ InitRisk
    /\ scfg = DefaultScfg
    /\ symbols = ("BTCUSDT" :> NewSymbolState)
    /\ ecfg = DefaultEcfg
    /\ now = 1
    /\ lastEval = NoEval
    /\ lastExit = NoExit
    /\ emitted = [s \in Symbols |-> {}]
    /\ InitLib

NextUnknown ==
    \/ \E side \in Sides, entry \in EntryPrices :
          RegisterPosition("BTCUSDT", side, entry, 10)
    \/ \E sym \in Symbols : UnregisterPosition(sym)
    \/ \E sym \in Symbols, price \in UnknownPrices : UpdatePrice(sym, price)
    \/ \E sym \in Symbols, rev \in BOOLEAN, r \in {"ok", "fail"} :
          ManagePosition(sym, rev, r, r, r, r, r)
    \/ \E reading \in {BullTrigger, BearTrigger}, close \in ClosePrices :
          UpdateKline("BTCUSDT", reading, close)
    \/ \E sym \in Symbols : Evaluate(sym, FALSE)
    \/ \E sym \in Symbols, side \in Sides : ShouldExit(sym, side, FALSE)

SpecUnknown == InitUnknown /\ [][NextUnknown]_vars

\* C16: calls for a symbol that is not known are neutral no-ops: evaluate
\* of an uninitialized symbol returns NEUTRAL and creates no state for it,
\* should_exit_long / should_exit_short return false, and update_price,
\* unregister and a management tick of an unregistered symbol change no
\* position and issue no executor call.
C16_UnknownSymbol ==
    [][\A s \in Symbols :
         /\ (EvalStep(s) /\ s \notin DOMAIN symbols)
              => /\ lastEval'.type = "NEUTRAL"
                 /\ symbols' = symbols
                 /\ emitted' = emitted
         /\ (lastOp'.op = "should_exit" /\ lastOp'.sym = s /\ s \notin DOMAIN symbols)
              => /\ lastExit'.sym = s
                 /\ lastExit'.value = FALSE
                 /\ symbols' = symbols
         /\ (/\ lastOp'.op \in {"update_price", "unregister", "manage"}
             /\ lastOp'.sym = s
             /\ s \notin DOMAIN positions)
              => /\ positions' = positions
                 /\ calls' = <<>>]_vars

\* a management tick with a reversal reported for ETHUSDT, which has no
\* position, while BTCUSDT holds one whose price is at its TP2 level and
\* whose indicators say exit
C16_Witness ==
    /\ lastOp.op = "manage" /\ lastOp.sym = "ETHUSDT" /\ lastOp.rev
    /\ calls = <<>>
    /\ DOMAIN positions = {"BTCUSDT"}
    /\ positions["BTCUSDT"].current_price = 525
    /\ ~positions["BTCUSDT"].tp1_triggered
    /\ DOMAIN symbols = {"BTCUSDT"}
    /\ lastExit = [sym |-> "ETHUSDT", side |-> "LONG", value |-> FALSE]
    /\ lastEval.sym = "-"

(***************************************************************************)
(* Specification of the news filter: any switch and buffers, events added  *)
(* one by one, is_blackout asked for any of the sample times.              *)
(***************************************************************************)
InitNews ==
    /\ InitPositions
    /\ pcfg = DefaultPcfg
    /\ InitRisk
    /\ scfg = DefaultScfg
    /\ InitEngineIdle
    /\ nf \in [enabled : BOOLEAN, buffer_before : BufferChoices,
               buffer_after : BufferChoices, events : {<<>>}]
    /\ lastBlackout = NoBlackout
    /\ sti = NewSupertrend
    /\ inds = NewIndicators
    /\ stream = 0
    /\ setup = NoSetup

NextNews ==
    \/ \E e \in NewsEvents : AddEvent(e)
    \/ \E current_utc \in DateTimes : QueryBlackout(current_utc)

SpecNews == InitNews /\ [][NextNews]_vars

\* minute of the day
MinuteOfDay(t) == t.hour * 60 + t.minute

\* C17: is_blackout(now) is true iff the filter is enabled and some event
\* has now's month and day and now's minute of day lies in the closed
\* interval [eventMinute - bufferBefore, eventMinute + bufferAfter]; a
\* disabled filter or an empty event list gives false; with an event at
\* 13:30 and buffers 30/30 it is true at 13:30 and 13:00 and false at 12:00.
C17_Blackout ==
    lastOp.op = "is_blackout"
    => LET t      == lastBlackout.at
           events == {nf.events[i] : i \in DOMAIN nf.events}
           hit    == \E e \in events :
                        /\ e.month = t.month /\ e.day = t.day
                        /\ MinuteOfDay(t) \in (MinuteOfDay(e) - nf.buffer_before)
                                              .. (MinuteOfDay(e) + nf.buffer_after)
       IN  /\ lastBlackout.value <=> (nf.enabled /\ hit)
           /\ (~nf.enabled \/ nf.events = <<>>) => ~lastBlackout.value
           /\ (/\ nf.enabled /\ nf.buffer_before = 30 /\ nf.buffer_after = 30
               /\ events = {[month |-> 1, day |-> 1, hour |-> 13, minute |-> 30]}
               /\ t.month = 1 /\ t.day = 1)
                => /\ (t.hour = 13 /\ t.minute \in {0, 30}) => lastBlackout.value
                   /\ (t.hour = 12 /\ t.minute = 0) => ~lastBlackout.value

\* the answer at 13:00, the first minute of the window of a 13:30 event with
\* a 30 minute buffer before
C17_Witness ==
    /\ lastOp.op = "is_blackout"
    /\ nf.enabled /\ nf.buffer_before = 30
    /\ nf.events = <<[month |-> 1, day |-> 1, hour |-> 13, minute |-> 30]>>
    /\ lastBlackout.at = [month |-> 1, day |-> 1, hour |-> 13, minute |-> 0]
    /\ lastBlackout.value

(***************************************************************************)
(* Specification of the position manager with the history of refused       *)
(* calls.  The executor answers each call with success, refusal or an      *)
(* exception; weak fairness of the tick in which every call succeeds says  *)
(* that the executor eventually succeeds.                                  *)
(***************************************************************************)
RetryPrices == {485, 500, 515, 525}

InitRetry ==
    /\ InitPositions
    /\ pcfg \in [use_partial_profits : {TRUE}, use_breakeven : {TRUE},
                  use_trailing_stop : BOOLEAN, trailing_stop_atr : TrailChoices]
    /\ InitRisk
    /\ scfg = DefaultScfg
    /\ InitEngineIdle
    /\ InitLib

SucceedingTick == \E sym \in PMSymbols : ManageAndTrack(sym, FALSE, "ok", "ok", "ok", "ok", "ok")

NextRetry ==
    \/ \E sym \in PMSymbols, side \in Sides, entry \in EntryPrices, atr \in AtrValues :
          RegisterPosition(sym, side, entry, atr)
    \/ \E sym \in PMSymbols : UnregisterPosition(sym)
    \/ \E sym \in PMSymbols, price \in RetryPrices : UpdatePrice(sym, price)
    \/ \E sym \in PMSymbols, rc \in Outcomes :
          ManageAndTrack(sym, TRUE, rc, "ok", "ok", "ok", "ok")
    \/ \E sym \in PMSymbols, r1, r2, r3, r4 \in Outcomes :
          ManageAndTrack(sym, FALSE, "ok", r1, r2, r3, r4)

SpecRetry == InitRetry /\ [][NextRetry]_vars /\ WF_vars(SucceedingTick)

\* the position of a check in _manage_position
CheckOrder(tag) == CASE tag = "TP1" -> 1 [] tag = "TP2" -> 2 [] tag = "BE" -> 3
                     [] tag = "TRAIL" -> 4 [] OTHER -> 0

\* an executor call issued before the check `tag' raised
RaisedBefore(cs, tag) ==
    \E i \in DOMAIN cs : cs[i].res = "raise" /\ CheckOrder(cs[i].tag) < CheckOrder(tag)

Key(op, tag, s) == [op |-> op, tag |-> tag, sym |-> s]

Issued(cs, op, tag, s, side, arg) ==
    \E i \in DOMAIN cs : cs[i] = [op |-> op, tag |-> tag, sym |-> s, side |-> side,
                                  arg |-> arg, res |-> cs[i].res]

BeStop(pos) == IF pos.side = "LONG" THEN pos.entry_price + Mul(pos.atr_at_entry, 1)
               ELSE pos.entry_price - Mul(pos.atr_at_entry, 1)

BeReached(pos) ==
    Reached(pos, pos.current_price,
            IF pos.side = "LONG"
            THEN pos.entry_price + Mul(pos.atr_at_entry, BreakevenTriggerAtr)
            ELSE pos.entry_price - Mul(pos.atr_at_entry, BreakevenTriggerAtr))

TrailStop(pos) ==
    IF pos.side = "LONG"
    THEN pos.highest_price - Mul(pos.atr_at_entry, pcfg.trailing_stop_atr)
    ELSE pos.lowest_price + Mul(pos.atr_at_entry, pcfg.trailing_stop_atr)

C19_RetrySafety ==
    [][\A s \in PMSymbols :
         PlainTickOf(s)
         => LET p  == positions[s]
                sl == IF HasOkCall(calls', "BE") THEN BeStop(p) ELSE p.stoploss
            IN  /\ s \in DOMAIN positions'
                /\ (Key("close_partial", "TP1", s) \in retry.refused
                     /\ Reached(p, p.current_price, p.tp1_price))
                     => Issued(calls', "close_partial", "TP1", s, p.side, 50)
                /\ (Key("close_partial", "TP2", s) \in retry.refused
                     /\ ~RaisedBefore(calls', "TP2")
                     /\ Reached(p, p.current_price, p.tp2_price))
                     => Issued(calls', "close_partial", "TP2", s, p.side, 50)
                /\ (Key("set_stoploss", "BE", s) \in retry.refused
                     /\ ~RaisedBefore(calls', "BE")
                     /\ BeReached(p) /\ Better(p, BeStop(p), p.stoploss))
                     => Issued(calls', "set_stoploss", "BE", s, "-", BeStop(p))
                /\ (Key("set_stoploss", "TRAIL", s) \in retry.refused
                     /\ ~RaisedBefore(calls', "TRAIL")
                     /\ Better(p, TrailStop(p), sl))
                     => Issued(calls', "set_stoploss", "TRAIL", s, "-", TrailStop(p))
                /\ \A k \in retry'.again : k \in retry.refused]_vars

\* a refused call stays pending only as long as its condition holds and the
\* position is registered
PendingTp1(s) == s \in DOMAIN positions /\ Key("close_partial", "TP1", s) \in retry.refused
PendingTp2(s) == s \in DOMAIN positions /\ Key("close_partial", "TP2", s) \in retry.refused
PendingBe(s)  == s \in DOMAIN positions /\ Key("set_stoploss", "BE", s) \in retry.refused
PendingTrail(s) == s \in DOMAIN positions /\ Key("set_stoploss", "TRAIL", s) \in retry.refused

SettledTp1(s) ==
    \/ s \notin DOMAIN positions
    \/ positions[s].tp1_triggered
    \/ ~Reached(positions[s], positions[s].current_price, positions[s].tp1_price)
SettledTp2(s) ==
    \/ s \notin DOMAIN positions
    \/ positions[s].tp2_triggered
    \/ ~Reached(positions[s], positions[s].current_price, positions[s].tp2_price)
SettledBe(s) ==
    \/ s \notin DOMAIN positions
    \/ positions[s].breakeven_triggered
    \/ ~BeReached(positions[s])
    \/ NotWorse(positions[s], positions[s].stoploss, BeStop(positions[s]))
SettledTrail(s) ==
    \/ s \notin DOMAIN positions
    \/ NotWorse(positions[s], positions[s].stoploss, TrailStop(positions[s]))

InitST ==
    /\ InitPositions
    /\ pcfg = DefaultPcfg
    /\ InitRisk
    /\ scfg = DefaultScfg
    /\ InitEngineIdle
    /\ InitLib

NextST ==
    \E b \in StBars, atr_val \in StAtrSamples : StUpdate(b[1], b[2], b[3], atr_val)

SpecST == InitST /\ [][NextST]_vars

\* C20: on every update of an initialized Supertrend the direction becomes
\* bullish only when the close is above the previous supertrend value,
\* becomes bearish only when it is below, and is unchanged when they are
\* equal; while the direction stays bullish across the update the value does
\* not decrease, and while it stays bearish the value does not increase.
C20_Supertrend ==
    [][(lastOp'.op = "st_update" /\ sti.supertrend # None)
        => /\ sti'.supertrend # None
           /\ sti'.direction \in {1, -1}
           /\ (sti.direction = -1 /\ sti'.direction = 1) => sti'.close > sti.supertrend
           /\ (sti.direction = 1 /\ sti'.direction = -1) => sti'.close < sti.supertrend
           /\ sti'.close = sti.supertrend => sti'.direction = sti.direction
           /\ (sti.direction = 1 /\ sti'.direction = 1)
                => sti'.supertrend >= sti.supertrend
           /\ (sti.direction = -1 /\ sti'.direction = -1)
                => sti'.supertrend <= sti.supertrend]_vars

\* a bearish Supertrend whose last update kept it bearish and lowered the
\* value, after an earlier flip from the initial bullish direction
C20_Witness ==
    /\ lastOp.op = "st_update"
    /\ sti.supertrend # None /\ sti.prev_supertrend # None
    /\ sti.direction = -1 /\ sti.prev_direction = -1
    /\ sti.supertrend < sti.prev_supertrend

(***************************************************************************)
(* Specification of the indicator histories: bars arrive one by one, and   *)
(* a warm start may replace the histories at any time.  SpecHist follows   *)
(* long streams, SpecInd short ones with every finding of the divergence   *)
(* scan.                                                                   *)
(***************************************************************************)
InitInd ==
    /\ InitPositions
    /\ pcfg = DefaultPcfg
    /\ InitRisk
    /\ scfg = DefaultScfg
    /\ InitEngineIdle
    /\ InitLib

NextInd ==
    \/ \E d \in DivergenceFindings : stream < MaxWarmup /\ FeedBar(d)
    \/ \E k \in BatchLens, d \in DivergenceFindings : FeedBatch(k, d)

SpecInd == InitInd /\ [][NextInd]_vars

NextHist ==
    \/ FeedBar(<<FALSE, FALSE>>)
    \/ \E k \in LongBatchLens : FeedBatch(k, <<FALSE, FALSE>>)

SpecHist == InitInd /\ [][NextHist]_vars

\* the last Min(stream, HistoryCap) samples of the stream, in arrival order
Recent == LET n == IF stream > HistoryCap THEN HistoryCap ELSE stream
          IN  [i \in 1..n |-> stream - n + i]

Observable(x) ==
    [ema_fast      |-> EmaVal(x.ema.fast) # None,
     ema_slow      |-> EmaVal(x.ema.slow) # None,
     ema_filter    |-> EmaVal(x.ema.filter) # None,
     ema_trend     |-> EmaVal(x.ema.trend) # None,
     ema_prev      |-> x.ema.prev_fast /\ x.ema.prev_slow,
     rsi_value     |-> RsiValueSet(x.rsi.n),
     rsi_previous  |-> x.rsi.prev_rsi,
     rsi_bull_div  |-> x.rsi.bullish_divergence,
     rsi_bear_div  |-> x.rsi.bearish_divergence,
     adx_ready     |-> x.adx.adx,
     adx_di        |-> x.adx.di]

\* C22: after update_batch(samples) every observable output equals that of
\* a freshly constructed indicator given the same update_batch(samples),
\* whatever update or update_batch calls came before.
C22_BatchReinitializes ==
    lastOp.op = "update_batch"
    => Observable(inds) = Observable(BatchOf(NewIndicators, lastOp.n, lastOp.d))

(***************************************************************************)
(* Further properties of the position manager (checked under SpecPM)       *)
(***************************************************************************)
AllStopCallsOk == \A i \in DOMAIN calls' : calls'[i].op = "set_stoploss" => calls'[i].res = "ok"
NoCallRaised   == \A i \in DOMAIN calls' : calls'[i].res # "raise"

BotReadings ==
    {WarmReading, BullTrigger, BearTrigger,
     \* a large down bar on high volume inside an up trend
     [BullReading EXCEPT !.volume_spike = TRUE, !.bearish_engulfing = TRUE],
     [BearReading EXCEPT !.volume_spike = TRUE, !.st_bearish = FALSE]}

BotPrices == {470, 500, 530}

InitBot ==
    /\ InitPositions
    /\ pcfg = DefaultPcfg
    /\ InitRisk
    /\ scfg = DefaultScfg
    /\ symbols = EmptyMap
    /\ ecfg = [DefaultEcfg EXCEPT !.trade_cooldown = 2]
    /\ now = 1
    /\ lastEval = NoEval
    /\ lastExit = NoExit
    /\ emitted = [s \in Symbols |-> {}]
    /\ InitLib

NextBot ==
    \/ \E sym \in PMSymbols, confirm \in BOOLEAN, reading \in BotReadings,
          close \in ClosePrices, xr \in Outcomes :
          OnKline(sym, confirm, reading, close, FALSE, xr)
    \/ \E sym \in PMSymbols, price \in BotPrices : UpdatePrice(sym, price)
    \/ \E sym \in PMSymbols, rc, r \in Outcomes :
          BotManage(sym, FALSE, rc, r, r, r, r)
    \/ \E sym \in PMSymbols : UnregisterPosition(sym)
    \/ AdvanceTime

SpecBot == InitBot /\ [][NextBot]_vars

\* a confirmed candle of symbol s has just been handled
KlineStep(s) == lastOp'.op = "on_kline" /\ lastOp'.sym = s /\ lastOp'.confirm

\* the executor was asked to open a position
ExecuteCalled(cs) == \E i \in DOMAIN cs : cs[i].op = "execute"

(***************************************************************************)
(* C24: while a symbol has a registered position, a confirmed bar with an  *)
(* actionable signal for it calls the executor not at all and leaves the   *)
(* position as it is; a symbol gets a position only in a candle callback   *)
(* whose execute call reported success, and the position is the one built  *)
(* from that signal; an execute that fails or raises leaves the registry   *)
(* unchanged.                                                              *)
(***************************************************************************)
C24_OnePositionPerSymbol ==
    [][\A s \in PMSymbols :
          /\ (KlineStep(s) /\ s \in DOMAIN positions)
                => (~ExecuteCalled(calls') /\ positions' = positions)
          /\ (s \notin DOMAIN positions /\ s \in DOMAIN positions')
                => /\ KlineStep(s)
                   /\ lastEval'.type \in Sides
                   /\ calls' = <<Call("execute", "OPEN", s, lastEval'.type,
                                      lastMult', "ok")>>
                   /\ positions'[s] = RegisterOf(lastEval', IndicatorAtr(symbols', s))
          /\ (KlineStep(s) /\ ExecuteCalled(calls') /\ ~HasOkCall(calls', "OPEN"))
                => positions' = positions
      ]_vars

\* an actionable signal was just skipped for a symbol whose position has
\* already moved its stop to breakeven
C24_Witness ==
    /\ lastOp.op = "on_kline"
    /\ lastOp.confirm
    /\ lastEval.type \in Sides
    /\ calls = <<>>
    /\ lastOp.sym \in DOMAIN positions
    /\ positions[lastOp.sym].breakeven_triggered

(***************************************************************************)
(* The setup checks as functions of an IndicatorStatus and a configuration.*)
(***************************************************************************)
\* the optional filters and, for each, its switch and the flags it reads
OptionalFilters == {"ema200", "supertrend", "bollinger", "mtf", "rsi", "macd",
                    "volatility", "sr"}

FilterSwitch(f) ==
    CASE f = "ema200"     -> "use_ema200_filter"
      [] f = "supertrend" -> "supertrend_enabled"
      [] f = "bollinger"  -> "bollinger_enabled"
      [] f = "mtf"        -> "mtf_enabled"
      [] f = "rsi"        -> "rsi_enabled"
      [] f = "macd"       -> "macd_enabled"
      [] f = "volatility" -> "volatility_enabled"
      [] f = "sr"         -> "sr_enabled"

FilterFlags(f) ==
    CASE f = "ema200"     -> {"ema_above_200", "ema_below_200"}
      [] f = "supertrend" -> {"supertrend_bullish", "supertrend_bearish"}
      [] f = "bollinger"  -> {"bb_above_basis", "bb_below_basis", "bb_wide_enough"}
      [] f = "mtf"        -> {"mtf_bullish", "mtf_bearish"}
      [] f = "rsi"        -> {"rsi_bull_zone", "rsi_bear_zone"}
      [] f = "macd"       -> {"macd_bullish", "macd_bearish"}
      [] f = "volatility" -> {"volatility_ok"}
      [] f = "sr"         -> {"near_support", "near_resistance"}

\* an IndicatorStatus of one direction: the core trend flags say yes, and
\* each optional filter says what b says (for S/R, whether the opposite
\* level is near)
StatusOf(side, b) ==
    LET long == side = "LONG"
    IN  [DefaultStatus EXCEPT
           !.ema_fast_above_slow   = long,
           !.ema_strong_bull_trend = long,
           !.ema_strong_bear_trend = ~long,
           !.adx_strong            = b.adx,
           !.ema_above_200         = long /\ b.ema200,
           !.ema_below_200         = ~long /\ b.ema200,
           !.supertrend_bullish    = long /\ b.supertrend,
           !.supertrend_bearish    = ~long /\ b.supertrend,
           !.bb_above_basis        = long /\ b.bollinger,
           !.bb_below_basis        = ~long /\ b.bollinger,
           !.bb_wide_enough        = b.wide,
           !.mtf_bullish           = long /\ b.mtf,
           !.mtf_bearish           = ~long /\ b.mtf,
           !.rsi_bull_zone         = long /\ b.rsi,
           !.rsi_bear_zone         = ~long /\ b.rsi,
           !.macd_bullish          = long /\ b.macd,
           !.macd_bearish          = ~long /\ b.macd,
           !.volatility_ok         = b.volatility,
           !.near_resistance       = long /\ b.sr,
           !.near_support          = ~long /\ b.sr]

SetupStatuses ==
    {StatusOf(side, b) : side \in Sides,
        b \in [adx : {TRUE}, wide : {TRUE}, ema200 : BOOLEAN, supertrend : BOOLEAN,
               bollinger : BOOLEAN, mtf : BOOLEAN, rsi : BOOLEAN, macd : BOOLEAN,
               volatility : BOOLEAN, sr : BOOLEAN]}
    \cup
    {StatusOf(side, b) : side \in Sides,
        b \in [adx : BOOLEAN, wide : BOOLEAN, ema200 : {TRUE}, supertrend : {TRUE},
               bollinger : {TRUE}, mtf : {TRUE}, rsi : {TRUE}, macd : {TRUE},
               volatility : {TRUE}, sr : {FALSE}]}

SetupSwitches ==
    {[DefaultEcfg EXCEPT !.use_ema200_filter = c.ema200,
                         !.supertrend_enabled = c.supertrend,
                         !.bollinger_enabled = c.bollinger,
                         !.mtf_enabled = c.mtf,
                         !.rsi_enabled = c.rsi,
                         !.macd_enabled = c.macd,
                         !.volatility_enabled = c.volatility,
                         !.sr_enabled = c.sr] : c \in [OptionalFilters -> BOOLEAN]}

InitSetup ==
    /\ InitPositions
    /\ pcfg = DefaultPcfg
    /\ InitRisk
    /\ scfg = DefaultScfg
    /\ symbols = EmptyMap
    /\ ecfg \in SetupSwitches
    /\ now = 1
    /\ lastEval = NoEval
    /\ lastExit = NoExit
    /\ emitted = [s \in Symbols |-> {}]
    /\ nf = NewNewsFilter
    /\ lastBlackout = NoBlackout
    /\ sti = NewSupertrend
    /\ inds = NewIndicators
    /\ stream = 0
    /\ setup \in {[NoSetup EXCEPT !.status = s] : s \in SetupStatuses}

NextSetup == CheckSetups

SpecSetup == InitSetup /\ [][NextSetup]_vars

\* the statuses that differ from s at most in the flags of filter f
VariantsOf(s, f) ==
    {[x \in DOMAIN s |-> IF x \in FilterFlags(f) THEN b[x] ELSE s[x]] :
        b \in [FilterFlags(f) -> BOOLEAN]}

\* configuration cfg with filter f switched off
Disable(cfg, f) == [x \in DOMAIN cfg |-> IF x = FilterSwitch(f) THEN FALSE ELSE cfg[x]]

(***************************************************************************)
(* C25: the answer of either setup check is the same for every value of    *)
(* the flags of a disabled optional filter, and a setup that passes still  *)
(* passes when an enabled optional filter is switched off.                 *)
(***************************************************************************)
C25_DisabledFiltersExcluded ==
    setup.checked =>
       \A f \in OptionalFilters :
          IF ~ecfg[FilterSwitch(f)]
          THEN \A s2 \in VariantsOf(setup.status, f) :
                  /\ CheckLongSetup(s2, ecfg) = setup.long
                  /\ CheckShortSetup(s2, ecfg) = setup.short
          ELSE /\ setup.long  => CheckLongSetup(setup.status, Disable(ecfg, f))
               /\ setup.short => CheckShortSetup(setup.status, Disable(ecfg, f))

\* a long setup passes although the flags of two disabled filters say no,
\* with the other filters enabled
C25_Witness ==
    /\ setup.checked
    /\ setup.long
    /\ ~ecfg.supertrend_enabled /\ ~setup.status.supertrend_bullish
    /\ ~ecfg.mtf_enabled /\ ~setup.status.mtf_bullish
    /\ ecfg.rsi_enabled /\ ecfg.macd_enabled /\ ecfg.sr_enabled

(***************************************************************************)
(* C26: with the multi-timeframe filter enabled, no evaluate returns LONG  *)
(* or SHORT, whatever bars were delivered: nothing sets mtf_bullish or     *)
(* mtf_bearish, so neither setup check passes.                             *)
(***************************************************************************)
C26_MtfBlocksSignals ==
    [][\A s \in Symbols :
          (EvalStep(s) /\ ecfg.mtf_enabled)
             => /\ lastEval'.type \notin Sides
                /\ s \in DOMAIN symbols =>
                      LET status == EvaluateIndicators(symbols[s], ecfg, lastOp'.news)
                      IN  /\ ~status.mtf_bullish /\ ~status.mtf_bearish
                          /\ ~CheckLongSetup(status, ecfg)
                          /\ ~CheckShortSetup(status, ecfg)
                /\ symbols' = symbols
                /\ emitted' = emitted
      ]_vars

\* an evaluate found no trigger on a bar that shows a bullish crossover with
\* every other long filter aligned, the gates open and the filter enabled
C26_Witness ==
    /\ ecfg.mtf_enabled
    /\ lastOp.op = "evaluate"
    /\ lastOp.sym \in DOMAIN symbols
    /\ symbols[lastOp.sym].ind = BullTrigger
    /\ lastEval.type = "NEUTRAL"
    /\ lastEval.reason = "No trigger"
    /\ CheckLongSetup(EvaluateIndicators(symbols[lastOp.sym], ecfg, lastOp.news),
                      [ecfg EXCEPT !.mtf_enabled = FALSE])

\* the position of symbol s was opened by the candle callback just before
JustOpened(s) ==
    /\ lastOp.op = "on_kline" /\ lastOp.sym = s /\ lastOp.confirm
    /\ HasOkCall(calls, "OPEN")
    /\ s \in DOMAIN positions

(***************************************************************************)
(* C27: in the state in which a candle callback has emitted LONG,          *)
(* should_exit_long is false (mirror: SHORT and should_exit_short), and a  *)
(* management tick that follows the opening directly issues no reversal    *)
(* close and keeps the position registered.                                *)
(***************************************************************************)
C27_NoImmediateReversal ==
    [][\A s \in PMSymbols :
          /\ (KlineStep(s) /\ lastEval'.type = "LONG")
                => ~ShouldExitLong(symbols', s, ecfg, lastOp'.news)
          /\ (KlineStep(s) /\ lastEval'.type = "SHORT")
                => ~ShouldExitShort(symbols', s, ecfg, lastOp'.news)
          /\ (JustOpened(s) /\ TickOf(s))
                => (~HasCall(calls', "REV") /\ s \in DOMAIN positions')
      ]_vars

\* the price of a position is at or beyond its stop, or at or beyond its
\* target
StopCrossed(pos) ==
    IF pos.side = "LONG" THEN pos.current_price <= pos.stoploss
    ELSE pos.current_price >= pos.stoploss
TargetReached(pos) ==
    IF pos.side = "LONG" THEN pos.current_price >= pos.takeprofit
    ELSE pos.current_price <= pos.takeprofit

(***************************************************************************)
(* C28: a symbol leaves the registry only in an unregister call or in a    *)
(* management tick whose reversal check said exit and issued the close; a  *)
(* tick without a reversal issues no close_position and keeps the symbol   *)
(* registered wherever the price is, also at or beyond the stop or the     *)
(* target; and a confirmed candle for a symbol whose price is there is     *)
(* still skipped.                                                          *)
(***************************************************************************)
C28_OnlyReversalUnregisters ==
    [][\A s \in PMSymbols :
          /\ (s \in DOMAIN positions /\ s \notin DOMAIN positions')
                => \/ lastOp'.op = "unregister" /\ lastOp'.sym = s
                   \/ /\ TickOf(s) /\ lastOp'.rev
                      /\ Len(calls') = 1
                      /\ calls'[1].op = "close_position" /\ calls'[1].tag = "REV"
          /\ (TickOf(s) /\ ~lastOp'.rev)
                => /\ s \in DOMAIN positions'
                   /\ \A i \in DOMAIN calls' : calls'[i].op # "close_position"
          /\ (/\ KlineStep(s) /\ s \in DOMAIN positions
              /\ (StopCrossed(positions[s]) \/ TargetReached(positions[s])))
                => (~ExecuteCalled(calls') /\ positions' = positions)
      ]_vars

\* a management tick without a reversal has just run for a long position
\* whose price went up to the target and is now below the stop; the
\* position is still registered
C28_Witness ==
    /\ lastOp.op = "manage" /\ ~lastOp.rev
    /\ lastOp.sym \in DOMAIN positions
    /\ positions[lastOp.sym].side = "LONG"
    /\ positions[lastOp.sym].highest_price >= positions[lastOp.sym].takeprofit
    /\ positions[lastOp.sym].current_price < positions[lastOp.sym].stoploss

(***************************************************************************)
(* C29: a management tick for a position whose ATR at entry is <= 0 issues *)
(* no executor call and leaves the position as it is, whatever the price   *)
(* and whatever the engine says about a reversal; the ATR at entry of a    *)
(* registered position never changes, so this holds for as long as the     *)
(* position is registered.                                                 *)
(***************************************************************************)
C29_NoAtrNoAction ==
    [][\A s \in PMSymbols :
          /\ (TickOf(s) /\ positions[s].atr_at_entry <= 0)
                => /\ calls' = <<>>
                   /\ positions' = positions
          /\ (s \in DOMAIN positions /\ s \in DOMAIN positions'
                  /\ lastOp'.op # "register")
                => positions'[s].atr_at_entry = positions[s].atr_at_entry
      ]_vars

\* a tick has just run for a position without ATR while the engine reported
\* a reversal and the price was beyond the first target; nothing was called
\* and the target is not marked
C29_Witness ==
    /\ lastOp.op = "manage" /\ lastOp.rev
    /\ lastOp.sym \in DOMAIN positions
    /\ positions[lastOp.sym].atr_at_entry = 0
    /\ positions[lastOp.sym].tp1_price > 0
    /\ Reached(positions[lastOp.sym], positions[lastOp.sym].current_price,
               positions[lastOp.sym].tp1_price)
    /\ positions[lastOp.sym].current_price # positions[lastOp.sym].entry_price
    /\ ~positions[lastOp.sym].tp1_triggered
    /\ calls = <<>>

(***************************************************************************)
(* Polling passes over the positions of two symbols.                       *)
(***************************************************************************)
PassPrices == {500, 525}

InitPass ==
    /\ InitPositions
    /\ pcfg = DefaultPcfg
    /\ InitRisk
    /\ scfg = DefaultScfg
    /\ InitEngineIdle
    /\ InitLib

NextPass ==
    \/ \E sym \in Symbols, side \in Sides, entry \in EntryPrices :
          RegisterPosition(sym, side, entry, 10)
    \/ \E sym \in Symbols, price \in PassPrices : UpdatePrice(sym, price)
    \/ \E ord \in PassOrders(DOMAIN positions),
          inp \in [DOMAIN positions -> PassInputs] :
          ManageAll(ord, inp)

SpecPass == InitPass /\ [][NextPass]_vars

\* the executor calls of a pass that belong to symbol s, in order
CallsOf(cs, s) == SelectSeq(cs, LAMBDA c : c.sym = s)

\* the tick of symbol s raised
RaisedFor(cs, s) == \E i \in DOMAIN cs : cs[i].sym = s /\ cs[i].res = "raise"

\* what _manage_position alone does to symbol s with the inputs of the pass
AloneOf(s) ==
    ManageOne(s, positions[s], pcfg, lastOp'.inp[s].rev, lastOp'.inp[s].res,
              lastOp'.inp[s].res, lastOp'.inp[s].res, lastOp'.inp[s].res,
              lastOp'.inp[s].res)

====
